---- MODULE Spec2Model ----
(***************************************************************************)
(* Land-use grid editor and ensemble propagation (earulandu/climateRe).    *)
(*                                                                         *)
(* Two specifications share this module:                                   *)
(*   SpecPerturb  the region perturbation routine as a pure relation       *)
(*                (old_utils/ulanduseEdit.py _apply_region_to_array and    *)
(*                the older inline loop of asf.py), inputs drawn in Init;  *)
(*   Spec         one interactive session of old_utils/ulanduseEdit.py:    *)
(*                Select, Apply, Save, Apply All, Save All, window close.  *)
(*                                                                         *)
(* A grid (numpy 2-D array) is a sequence of rows, each a sequence of      *)
(* category codes; cell (row, col) of the code, 0-based, is                *)
(* arr[row + 1][col + 1].  percent is an integer number of percent.        *)
(***************************************************************************)
EXTENDS Integers, Sequences, FiniteSets, TLC

\* ------------------------------------------------------------------ bounds
\* Grid shape of the perturbation specification.
Rows == 2
Cols == 3
\* Registry size and ledger cap (number of recorded edits) of the session
\* specification.
NMembers == 3
MaxLedger == 2

\* ----------------------------------------------------------------- helpers
Max(a, b) == IF a >= b THEN a ELSE b
Min(a, b) == IF a <= b THEN a ELSE b

\* lu_arr.shape[0], lu_arr.shape[1]
Shape0(arr) == Len(arr)
Shape1(arr) == Len(arr[1])

\* None, where a variable otherwise holds a file id (m_data = None) or a count.
None == -1

\* The member counts a message states: none, for every message but the last
\* line of Save All.
NoTally == [succeeded |-> None, failed |-> None]

\* int(num / den) for den > 0: Python's int() truncates toward zero.
IntTrunc(num, den) == IF num >= 0 THEN num \div den ELSE -((-num) \div den)

\* The Legend of the dataset (legend_dict keys); 9 stands for a code that is
\* not a key.
LegendKeys == {1, 2, 3}

\* All cells (row, col), 0-based, of an array.
CellsOf(arr) == (0 .. Shape0(arr) - 1) \X (0 .. Shape1(arr) - 1)

\* The assignment taken as one to the whole rows of the cells.
AssignCellsWholeRows(arr, cells, new_val) ==
    [r \in 1 .. Len(arr) |->
        [c \in 1 .. Len(arr[r]) |->
            IF \E p \in cells : p[1] = r - 1 THEN new_val ELSE arr[r][c]]]

\* arr[rows, cols] = new_val for the (row, col) pairs in cells.
AssignCells(arr, cells, new_val) ==
    [r \in 1 .. Len(arr) |->
        [c \in 1 .. Len(arr[r]) |->
            IF <<r - 1, c - 1>> \in cells THEN new_val ELSE arr[r][c]]]

\* ------------------------------------------- region perturbation algorithm
\* The region taken as given, not clamped to the array.
ClampRegionUnclamped(lu_arr, x_min, y_min, x_max, y_max) ==
    [r0 |-> y_min, r1 |-> y_max, c0 |-> x_min, c1 |-> x_max]

\* r0 = max(y_min, 0); r1 = min(y_max, shape[0] - 1); c0 = max(x_min, 0);
\* c1 = min(x_max, shape[1] - 1)
ClampRegion(lu_arr, x_min, y_min, x_max, y_max) ==
    [r0 |-> Max(y_min, 0), r1 |-> Min(y_max, Shape0(lu_arr) - 1),
     c0 |-> Max(x_min, 0), c1 |-> Min(x_max, Shape1(lu_arr) - 1)]

\* The count taken over one cell fewer.
NumToChangeExclusive(n_pts, percent) == IntTrunc((n_pts - 1) * percent, 100)

\* n rounded up instead of truncated.
NumToChangeCeil(n_pts, percent) == (n_pts * percent + 99) \div 100

\* n = int(n_pts * percent / 100)
NumToChange(n_pts, percent) == IntTrunc(n_pts * percent, 100)

\* A generator seeded alike for every call: the draw is the first n indices.
RandomChoiceSeeded(n_pts, n) == {0 .. n - 1}

\* np.random.choice(n_pts, n, replace=False): every set of n distinct indices
\* of [0, n_pts) is a possible draw (0 <= n <= n_pts; otherwise it raises).
RandomChoice(n_pts, n) ==
    {S \in SUBSET (0 .. n_pts - 1) : Cardinality(S) = n}

\* The column taken modulo the row count.
FlatToCellModRows(idx, r0, c0, n_rows, n_cols) ==
    <<r0 + (idx \div n_cols), c0 + (idx % n_rows)>>

\* (r0 + flat_idx // n_cols, c0 + flat_idx % n_cols)
FlatToCell(idx, r0, c0, n_rows, n_cols) ==
    <<r0 + (idx \div n_cols), c0 + (idx % n_cols)>>

\* Outcome of one call: the array afterwards, the returned count, the set of
\* cells assigned, and whether the call raised instead of returning.
Outcome(arr, n, cells, raised) ==
    [arr |-> arr, n |-> n, cells |-> cells, raised |-> raised]

\* _apply_region_to_array(lu_arr, x_min, y_min, x_max, y_max, new_val, percent):
\* the set of outcomes the random draw allows.
ApplyRegionToArray(lu_arr, x_min, y_min, x_max, y_max, new_val, percent) ==
    LET cl     == ClampRegion(lu_arr, x_min, y_min, x_max, y_max)
        n_rows == cl.r1 - cl.r0 + 1
        n_cols == cl.c1 - cl.c0 + 1
        n_pts  == n_rows * n_cols
        n      == NumToChange(n_pts, percent)
    IN  IF cl.r0 > cl.r1 \/ cl.c0 > cl.c1 THEN {Outcome(lu_arr, 0, {}, FALSE)}
        ELSE IF n = 0 THEN {Outcome(lu_arr, 0, {}, FALSE)}
        \* np.random.choice raises ValueError for n < 0 or n > n_pts
        ELSE IF n < 0 \/ n > n_pts THEN {Outcome(lu_arr, n, {}, TRUE)}
        ELSE {LET cells == {FlatToCell(i, cl.r0, cl.c0, n_rows, n_cols) : i \in S}
              IN  Outcome(AssignCells(lu_arr, cells, new_val), n, cells, FALSE)
              : S \in RandomChoice(n_pts, n)}

\* asf.py lines 102-106: the list `points`, built by scanning rows y_min..y_max
\* and, within a row, columns x_min..x_max, keeping the in-bounds (row, col).
RECURSIVE AsfPoints(_, _, _, _, _, _)
AsfPoints(arr, row, col, x_min, x_max, y_max) ==
    IF row > y_max THEN <<>>
    ELSE IF col > x_max THEN AsfPoints(arr, row + 1, x_min, x_min, x_max, y_max)
    ELSE (IF 0 <= row /\ row < Shape0(arr) /\ 0 <= col /\ col < Shape1(arr)
          THEN <<<<row, col>>>> ELSE <<>>)
         \o AsfPoints(arr, row, col + 1, x_min, x_max, y_max)

\* asf.py lines 102-112: num_to_change = int(len(points) * percent / 100),
\* chosen = np.random.choice(len(points), num_to_change, replace=False), and
\* landuse_data[points[idx]] = new_val for every chosen idx.
AsfApply(arr, x_min, y_min, x_max, y_max, new_val, percent) ==
    LET points        == AsfPoints(arr, y_min, x_min, x_min, x_max, y_max)
        num_to_change == NumToChange(Len(points), percent)
    IN  IF num_to_change < 0 \/ num_to_change > Len(points)
        THEN {Outcome(arr, num_to_change, {}, TRUE)}
        ELSE {LET cells == {points[idx + 1] : idx \in chosen}
              IN  Outcome(AssignCells(arr, cells, new_val), num_to_change, cells, FALSE)
              : chosen \in RandomChoice(Len(points), num_to_change)}

\* ------------------------------------------------------------- variables
VARIABLES
    \* perturbation specification
    p_pc,       \* "off", "ready" (inputs drawn), "done" (routine has run) or
                \* "twice" (it has run again on a copy of the array)
    p_arr,      \* the array passed in
    p_call,     \* the arguments of the call
    p_res,      \* "none", or the outcome with the implementation that ran
    p_res2,     \* "none", or the outcome of a second call on a copy of p_arr
    \* session specification (module state of old_utils/ulanduseEdit.py)
    ensemble_members,     \* the registry: records sorted by num
    all_valid,            \* the bulk gate, computed once after the scan
    filename,             \* the dataset of the session (a file id; 0: no member's)
    data_open,            \* whether the session's handle `data` is open
    landuse_data,         \* the in-memory grid
    disk,                 \* file id -> grid stored in that dataset (<<>>: no file)
    applied_changes,      \* the full ledger
    bulk_applied_changes, \* the bulk ledger
    current_region,       \* <<>> (None) or <<x_min, y_min, x_max, y_max>>
    pc,                   \* "off", "idle", "sa_loop", "sa_opened" or "closed";
                          \* "asf_idle" for an interactive session of asf.py
    sa_i,                 \* Save All: index of the member the loop is at
    m_data,               \* Save All: file id of the open member handle, or None
    leaked,               \* file ids of member handles whose close() never succeeded
    errors,               \* Save All: the error tally
    report,               \* <<handler, outcome>> of the last message printed
    tally,                \* the member counts that message states (Save All's last line)
    \* history of the last propagation (not program state)
    g_log,                \* file id -> the ChangeSpecs applied to a written member's grid
    g_failed,             \* file ids of the members whose processing raised
    g_written,            \* file ids of the members written, synced and closed
    g_prior,              \* file ids of the members written by an earlier Save All
                          \* that ended without an error
    \* replay specification (the replay command of save_changes)
    r_pc,                 \* "off", "ready" (ledger drawn) or "done" (Save has printed)
    r_applied_changes,    \* the full ledger, percent as the float the TextBox gave
    r_out,                \* "none", or the implementation and the text of args_str
    \* registry specification (scan_ensemble_members at start-up)
    c_pc,                 \* "off", "ready" (directory drawn) or "done" (scan has run)
    cwd,                  \* the *.in entries of the working directory, in glob order
    \* batch specification (the --apply loop of ulanduseEdit.py and of asf.py)
    b_pc,                 \* "off", "loop", or "exited"
    b_impl,               \* "ulanduseEdit" or "asf"
    cli_applies,          \* the --apply arguments, in command-line order
    b_i,                  \* index of the spec the loop is at
    b_exit,               \* None, or the exit status of the process
    \* workflow specification (utils/ueditsetupEnsemble.py, run after run)
    w_pc,                 \* "off", "shell" (no run in progress) or the step of a run
    state_file,           \* .ensemble_state.json: whether it exists, and its text
    w_locals,             \* base_name, count, base_domname of the run in progress
    w_ran,                \* the external commands the run in progress has started
    w_rcs,                \* the return codes of those commands, in the same order
    w_exit,               \* None, or the exit status of the last run
    w_done,               \* the steps the run in progress or the last run completed
    g_saved               \* the arguments of the last save_state call (<<>>: none yet)

pvars == <<p_pc, p_arr, p_call, p_res, p_res2>>
svars == <<ensemble_members, all_valid, filename, data_open, landuse_data, disk,
           applied_changes, bulk_applied_changes, current_region, pc, sa_i,
           m_data, leaked, errors, report, tally, g_log, g_failed, g_written,
           g_prior>>
rvars == <<r_pc, r_applied_changes, r_out>>
cvars == <<c_pc, cwd>>
bvars == <<b_pc, b_impl, cli_applies, b_i, b_exit>>
wvars == <<w_pc, state_file, w_locals, w_ran, w_rcs, w_exit, w_done, g_saved>>
\* The variables neither the perturbation nor the session specification uses.
ovars == <<rvars, cvars, bvars, wvars>>
vars == <<pvars, svars, ovars>>

\* Input arrays: a uniform grid and a two-category checkerboard.
PerturbArrays ==
    {[r \in 1 .. Rows |-> [c \in 1 .. Cols |-> 1]],
     [r \in 1 .. Rows |-> [c \in 1 .. Cols |-> 1 + ((r + c) % 2)]]}

\* Coordinates from one cell before the grid to one cell past it, so that
\* regions lie inside, straddle an edge, lie fully outside, or are inverted.
PerturbXs == -1 .. Cols
PerturbYs == -1 .. Rows
\* Target categories (9 is not a Legend key) and percentages, in and out of
\* [0, 100].
PerturbVals == LegendKeys \cup {9}
PerturbPercents == {-10, 0, 1, 34, 50, 99, 100, 150}

PerturbOff ==
    /\ p_pc = "off"
    /\ p_arr = <<>>
    /\ p_call = <<>>
    /\ p_res = "none"
    /\ p_res2 = "none"

ReplayOff ==
    /\ r_pc = "off"
    /\ r_applied_changes = <<>>
    /\ r_out = "none"

RegistryOff ==
    /\ c_pc = "off"
    /\ cwd = <<>>

BatchOff ==
    /\ b_pc = "off"
    /\ b_impl = "none"
    /\ cli_applies = <<>>
    /\ b_i = 0
    /\ b_exit = None

WorkflowOff ==
    /\ w_pc = "off"
    /\ state_file = <<>>
    /\ w_locals = <<>>
    /\ w_ran = <<>>
    /\ w_rcs = <<>>
    /\ w_exit = None
    /\ w_done = {}
    /\ g_saved = <<>>

\* The session is not running.
SessionOff ==
    /\ ensemble_members = <<>>
    /\ all_valid = FALSE
    /\ filename = 0
    /\ data_open = FALSE
    /\ landuse_data = <<>>
    /\ disk = <<>>
    /\ applied_changes = <<>>
    /\ bulk_applied_changes = <<>>
    /\ current_region = <<>>
    /\ pc = "off"
    /\ sa_i = 0
    /\ m_data = None
    /\ leaked = {}
    /\ errors = 0
    /\ report = <<"none", "none">>
    /\ tally = NoTally
    /\ g_log = <<>>
    /\ g_failed = {}
    /\ g_written = {}
    /\ g_prior = {}

InitPerturb ==
    /\ SessionOff
    /\ ReplayOff /\ RegistryOff /\ BatchOff /\ WorkflowOff
    /\ p_pc = "ready"
    /\ p_arr \in PerturbArrays
    /\ p_call \in [x_min : PerturbXs, y_min : PerturbYs,
                    x_max : PerturbXs, y_max : PerturbYs,
                    new_val : PerturbVals, percent : PerturbPercents]
    /\ p_res = "none"
    /\ p_res2 = "none"

\* One call of _apply_region_to_array on the drawn inputs.
PerturbCall ==
    /\ p_pc = "ready"
    /\ \E o \in ApplyRegionToArray(p_arr, p_call.x_min, p_call.y_min, p_call.x_max,
                                   p_call.y_max, p_call.new_val, p_call.percent) :
           p_res' = [impl |-> "ulanduseEdit", out |-> o]
    /\ p_pc' = "done"
    /\ UNCHANGED <<p_arr, p_call, p_res2, svars, ovars>>

\* One pass of the asf.py batch loop body on the drawn inputs.
AsfCall ==
    /\ p_pc = "ready"
    /\ \E o \in AsfApply(p_arr, p_call.x_min, p_call.y_min, p_call.x_max,
                         p_call.y_max, p_call.new_val, p_call.percent) :
           p_res' = [impl |-> "asf", out |-> o]
    /\ p_pc' = "done"
    /\ UNCHANGED <<p_arr, p_call, p_res2, svars, ovars>>

NextPerturb == PerturbCall \/ AsfCall

SpecPerturb == InitPerturb /\ [][NextPerturb]_vars

\* ------------------------------------------------------- session: helpers
FileIds == 0 .. NMembers

\* Shape (rows, columns) of the grids of the session specification.  The
\* session's handlers pass the grid to the perturbation routine whole, whose
\* dependence on the shape is the subject of SpecPerturb.
SessShape == <<1, 2>>

\* The grid every dataset holds when the session starts.
InitialGrid == [r \in 1 .. SessShape[1] |-> [c \in 1 .. SessShape[2] |-> 1]]

\* Regions the selector can deliver: the whole grid, and a rectangle over the
\* top right corner cell that reaches past the grid.
SessRegions ==
    {<<0, 0, SessShape[2] - 1, SessShape[1] - 1>>,
     <<SessShape[2] - 1, SessShape[1] - 1, SessShape[2], SessShape[1]>>}

\* Text of a TextBox: whether int()/float() accepts it, and the number it
\* denotes if so.
Text(numeric, value) == [numeric |-> numeric, value |-> value]
LanduseTexts == {Text(TRUE, 2), Text(TRUE, 9), Text(FALSE, 0)}
PercentTexts == {Text(TRUE, 50), Text(TRUE, 150), Text(FALSE, 0)}

\* The all_valid gate with the test for an empty registry left out.
AllValidOfEmptyOk(members) == \A i \in 1 .. Len(members) : members[i].nc_exists

\* all_valid = bool(ensemble_members) and all(m['nc_exists'] ...)
AllValidOf(members) ==
    Len(members) > 0 /\ \A i \in 1 .. Len(members) : members[i].nc_exists

\* The inputs accepted without the Legend test.
ValidateInputsNoLegend(t_landuse, t_percent) ==
    IF ~t_landuse.numeric \/ ~t_percent.numeric
    THEN [err |-> "not_numeric", new_val |-> 0, percent |-> 0]
    ELSE IF ~(0 <= t_percent.value /\ t_percent.value <= 100)
    THEN [err |-> "bad_percent", new_val |-> 0, percent |-> 0]
    ELSE [err |-> "ok", new_val |-> t_landuse.value, percent |-> t_percent.value]

\* _validate_inputs(): "ok" with (new_val, percent), or the ValueError raised.
ValidateInputs(t_landuse, t_percent) ==
    IF ~t_landuse.numeric \/ ~t_percent.numeric
    THEN [err |-> "not_numeric", new_val |-> 0, percent |-> 0]
    ELSE IF t_landuse.value \notin LegendKeys
    THEN [err |-> "bad_landuse", new_val |-> 0, percent |-> 0]
    ELSE IF ~(0 <= t_percent.value /\ t_percent.value <= 100)
    THEN [err |-> "bad_percent", new_val |-> 0, percent |-> 0]
    ELSE [err |-> "ok", new_val |-> t_landuse.value, percent |-> t_percent.value]

\* The ChangeSpec tuple the ledgers hold.
ChangeSpec(region, new_val, percent) ==
    <<region[1], region[2], region[3], region[4], new_val, percent>>

\* The entry put at the front of the list.
LedgerPrepend(ledger, spec) == <<spec>> \o ledger

\* list.append
LedgerAppend(ledger, spec) == Append(ledger, spec)

\* Apply All leaves the full ledger as it is.
ApplyAllFullSkipped(ledger, spec) == ledger

\* apply_all_changes line 526: applied_changes.append(...)
ApplyAllFull(ledger, spec) == LedgerAppend(ledger, spec)

\* The gate always open.
BulkGateAlways == TRUE

\* `if not all_valid: ... return` of apply_all_changes and save_all_changes
BulkGate == all_valid

\* The reason printed when the gate is shut.
GateReason == IF Len(ensemble_members) = 0 THEN "disabled_no_members"
              ELSE "disabled_missing"

\* The loop run over the full ledger.
PropagatedLedgerFull == applied_changes

\* save_all_changes line 590: the ledger the member loop replays
PropagatedLedger == bulk_applied_changes

\* The loop left at the first failure.
AfterFailureBreak(i) == Len(ensemble_members) + 1

\* The except clause falls through to the next iteration of the member loop.
AfterFailure(i) == i + 1

\* The handle still held after a completed member.
ReleaseSkipped(held, f) == held \cup {f}

\* save_all_changes line 600: m_data.close() returned; the handle is released.
Release(held, f) == held \ {f}

\* save_all_changes line 579: member_nc_abs == current_abs
IsCurrent(member) == member.nc_file = filename

\* Lines 590-596: the bulk ledger applied entry by entry to a member's grid,
\* each call with its own draw.  A result is the array reached, whether a call
\* raised, and the number of calls made.
RECURSIVE ApplyLedger(_, _, _)
ApplyLedger(arr, ledger, k) ==
    IF k > Len(ledger) THEN {[arr |-> arr, raised |-> FALSE, calls |-> k - 1]}
    ELSE UNION {IF o.raised THEN {[arr |-> o.arr, raised |-> TRUE, calls |-> k]}
                ELSE ApplyLedger(o.arr, ledger, k + 1)
                : o \in ApplyRegionToArray(arr, ledger[k][1], ledger[k][2], ledger[k][3],
                                           ledger[k][4], ledger[k][5], ledger[k][6])}

\* The last line counts every member as saved whenever at most one failed.
FinalTallyLenient(n_members, errs) ==
    IF errs <= 1 THEN [succeeded |-> n_members, failed |-> None]
    ELSE [succeeded |-> None, failed |-> errs]

\* Lines 613-617: "Complete - all {len(ensemble_members)} member(s) saved
\* successfully." if errors == 0, else "Complete with {errors} error(s)."
FinalTally(n_members, errs) ==
    IF errs = 0 THEN [succeeded |-> n_members, failed |-> None]
    ELSE [succeeded |-> None, failed |-> errs]

\* The writable dataset handles open: the session's `data`, the member handle
\* of the running Save All, and member handles that were never released.
OpenHandles ==
    (IF data_open THEN {filename} ELSE {})
    \cup (IF m_data # None THEN {m_data} ELSE {})
    \cup leaked

\* ------------------------------------------------------------ session: Init
Init ==
    /\ PerturbOff
    /\ ReplayOff /\ RegistryOff /\ BatchOff /\ WorkflowOff
    /\ \/ /\ pc = "idle"
          /\ \E k \in 0 .. NMembers : \E exists \in [1 .. k -> BOOLEAN] :
               /\ ensemble_members =
                      [i \in 1 .. k |-> [num |-> i, nc_file |-> i, nc_exists |-> exists[i]]]
               /\ filename \in {0} \cup {i \in 1 .. k : exists[i]}
               /\ disk = [f \in FileIds |->
                             IF f = filename \/ (f \in 1 .. k /\ exists[f])
                             THEN InitialGrid ELSE <<>>]
       \* asf.py: one dataset, no registry
       \/ /\ pc = "asf_idle"
          /\ ensemble_members = <<>>
          /\ filename = 0
          /\ disk = [f \in FileIds |-> IF f = 0 THEN InitialGrid ELSE <<>>]
    /\ all_valid = AllValidOf(ensemble_members)
    /\ data_open = TRUE
    /\ landuse_data = InitialGrid
    /\ applied_changes = <<>>
    /\ bulk_applied_changes = <<>>
    /\ current_region = <<>>
    /\ sa_i = 0
    /\ m_data = None
    /\ leaked = {}
    /\ errors = 0
    /\ report = <<"none", "none">>
    /\ tally = NoTally
    /\ g_log = [f \in FileIds |-> <<>>]
    /\ g_failed = {}
    /\ g_written = {}
    /\ g_prior = {}

saVars == <<sa_i, m_data, leaked, errors, g_log, g_failed, g_written>>

\* --------------------------------------------------------- session: actions
\* on_select: a completed drag stores the normalised region (a click outside
\* the axes returns before storing anything).
OnSelect ==
    /\ tally' = NoTally
    /\ UNCHANGED g_prior
    /\ pc = "idle"
    /\ \E region \in SessRegions : current_region' = region
    /\ report' = <<"Select", "selected">>
    /\ UNCHANGED <<pvars, ovars, ensemble_members, all_valid, filename, data_open,
                   landuse_data, disk, applied_changes, bulk_applied_changes,
                   pc, saVars>>

\* apply_changes: the Apply button.
ApplyChanges ==
    /\ tally' = NoTally
    /\ UNCHANGED g_prior
    /\ pc = "idle"
    /\ \E t_landuse \in LanduseTexts, t_percent \in PercentTexts :
         LET v == ValidateInputs(t_landuse, t_percent) IN
         IF current_region = <<>> THEN
              /\ report' = <<"Apply", "no_region">>
              /\ UNCHANGED <<landuse_data, applied_changes>>
         ELSE IF v.err # "ok" THEN
              /\ report' = <<"Apply", v.err>>
              /\ UNCHANGED <<landuse_data, applied_changes>>
         ELSE /\ Len(applied_changes) < MaxLedger
              /\ \E o \in ApplyRegionToArray(landuse_data, current_region[1],
                                             current_region[2], current_region[3],
                                             current_region[4], v.new_val, v.percent) :
                     landuse_data' = o.arr
              /\ applied_changes' =
                     LedgerAppend(applied_changes,
                                  ChangeSpec(current_region, v.new_val, v.percent))
              /\ report' = <<"Apply", "changed">>
    /\ UNCHANGED <<pvars, ovars, ensemble_members, all_valid, filename, data_open, disk,
                   bulk_applied_changes, current_region, pc, saVars>>

\* The session after the except clause of save_changes (lines 470-472): the
\* handler returns and the session goes on.
AfterSaveErrorExit == "closed"

AfterSaveError == "idle"

\* save_changes: the Save button.  The write or the sync may raise; the
\* handler reports it and returns.
SaveChanges ==
    /\ tally' = NoTally
    /\ UNCHANGED g_prior
    /\ pc = "idle"
    /\ \E ok \in BOOLEAN :
         IF ok THEN /\ disk' = [disk EXCEPT ![filename] = landuse_data]
                    /\ report' = <<"Save", "saved">>
                    /\ UNCHANGED pc
         ELSE /\ disk' \in {disk, [disk EXCEPT ![filename] = landuse_data]}
              /\ report' = <<"Save", "error">>
              /\ pc' = AfterSaveError
    /\ UNCHANGED <<pvars, ovars, ensemble_members, all_valid, filename, data_open,
                   landuse_data, applied_changes, bulk_applied_changes,
                   current_region, saVars>>

\* apply_all_changes: the Apply All button.
ApplyAllChanges ==
    /\ tally' = NoTally
    /\ UNCHANGED g_prior
    /\ pc = "idle"
    /\ \E t_landuse \in LanduseTexts, t_percent \in PercentTexts :
         LET v == ValidateInputs(t_landuse, t_percent) IN
         IF ~BulkGate THEN
              /\ report' = <<"ApplyAll", GateReason>>
              /\ UNCHANGED <<landuse_data, applied_changes, bulk_applied_changes>>
         ELSE IF current_region = <<>> THEN
              /\ report' = <<"ApplyAll", "no_region">>
              /\ UNCHANGED <<landuse_data, applied_changes, bulk_applied_changes>>
         ELSE IF v.err # "ok" THEN
              /\ report' = <<"ApplyAll", v.err>>
              /\ UNCHANGED <<landuse_data, applied_changes, bulk_applied_changes>>
         ELSE /\ Len(applied_changes) < MaxLedger
              /\ \E o \in ApplyRegionToArray(landuse_data, current_region[1],
                                             current_region[2], current_region[3],
                                             current_region[4], v.new_val, v.percent) :
                     landuse_data' = o.arr
              /\ applied_changes' =
                     ApplyAllFull(applied_changes,
                                  ChangeSpec(current_region, v.new_val, v.percent))
              /\ bulk_applied_changes' =
                     LedgerAppend(bulk_applied_changes,
                                  ChangeSpec(current_region, v.new_val, v.percent))
              /\ report' = <<"ApplyAll", "staged">>
    /\ UNCHANGED <<pvars, ovars, ensemble_members, all_valid, filename, data_open, disk,
                   current_region, pc, saVars>>

\* The handler going on to the member loop after the current file's error.
CurrentErrorFallsThrough == FALSE

\* save_all_changes lines 568-570: the except clause of the current file's
\* write ends with `return`.
CurrentErrorReturns == TRUE

\* save_all_changes, lines 550-574: the gates, the save of the current file,
\* and the start of the member loop.  The handler is split at the points where
\* a member's dataset is opened and released, so that the handles open in
\* between are states of the model; no other handler runs until it returns.
SaveAllBegin ==
    /\ tally' = NoTally
    /\ UNCHANGED g_prior
    /\ pc = "idle"
    /\ IF ~BulkGate THEN
            /\ report' = <<"SaveAll", GateReason>>
            /\ UNCHANGED <<disk, pc, sa_i, errors, g_log, g_failed, g_written>>
       ELSE IF bulk_applied_changes = <<>> THEN
            /\ report' = <<"SaveAll", "no_bulk">>
            /\ UNCHANGED <<disk, pc, sa_i, errors, g_log, g_failed, g_written>>
       ELSE \E ok \in BOOLEAN :
            IF ~ok /\ CurrentErrorReturns THEN
                 /\ disk' \in {disk, [disk EXCEPT ![filename] = landuse_data]}
                 /\ report' = <<"SaveAll", "current_error">>
                 /\ UNCHANGED <<pc, sa_i, errors, g_log, g_failed, g_written>>
            ELSE /\ IF ok THEN disk' = [disk EXCEPT ![filename] = landuse_data]
                    ELSE disk' \in {disk, [disk EXCEPT ![filename] = landuse_data]}
                 /\ report' = <<"SaveAll", IF ok THEN "current_saved" ELSE "current_error">>
                 /\ pc' = "sa_loop"
                 /\ sa_i' = 1
                 /\ errors' = 0
                 /\ g_log' = [f \in FileIds |-> <<>>]
                 /\ g_failed' = {}
                 /\ g_written' = {}
    /\ UNCHANGED <<pvars, ovars, ensemble_members, all_valid, filename, data_open,
                   landuse_data, applied_changes, bulk_applied_changes,
                   current_region, m_data, leaked>>

\* Lines 576-582: the member whose dataset is the session's is skipped.
SaveAllSkipCurrent ==
    /\ tally' = NoTally
    /\ UNCHANGED g_prior
    /\ pc = "sa_loop"
    /\ sa_i <= Len(ensemble_members)
    /\ IsCurrent(ensemble_members[sa_i])
    /\ sa_i' = sa_i + 1
    /\ report' = <<"SaveAll", "current_skipped">>
    /\ UNCHANGED <<pvars, ovars, ensemble_members, all_valid, filename, data_open,
                   landuse_data, disk, applied_changes, bulk_applied_changes,
                   current_region, pc, m_data, leaked, errors, g_log, g_failed,
                   g_written>>

\* Lines 584-586 (and 604-606 when the open raises): m_data = None, then the
\* member's dataset is opened for read-write.
SaveAllOpen ==
    /\ tally' = NoTally
    /\ UNCHANGED g_prior
    /\ pc = "sa_loop"
    /\ sa_i <= Len(ensemble_members)
    /\ ~IsCurrent(ensemble_members[sa_i])
    /\ LET f == ensemble_members[sa_i].nc_file IN
       \E ok \in BOOLEAN :
         IF ok THEN /\ m_data' = f
                    /\ pc' = "sa_opened"
                    /\ report' = <<"SaveAll", "member_opened">>
                    /\ UNCHANGED <<sa_i, errors, g_failed>>
         ELSE /\ m_data' = None
              /\ errors' = errors + 1
              /\ g_failed' = g_failed \cup {f}
              /\ sa_i' = AfterFailure(sa_i)
              /\ report' = <<"SaveAll", "member_error">>
              /\ UNCHANGED pc
    /\ UNCHANGED <<pvars, ovars, ensemble_members, all_valid, filename, data_open,
                   landuse_data, disk, applied_changes, bulk_applied_changes,
                   current_region, leaked, g_log, g_written>>

\* Lines 604-611: the except clause of a member whose handle is open: the
\* error is counted and close() is tried once more, an error of that close
\* being swallowed.  Whether the handle is released by then is the library's
\* answer: either.
SaveAllHandler(f, newdisk) ==
    /\ disk' = newdisk
    /\ errors' = errors + 1
    /\ g_failed' = g_failed \cup {f}
    /\ \E released \in BOOLEAN :
         leaked' = IF released THEN leaked \ {f} ELSE leaked \cup {f}
    /\ m_data' = None
    /\ sa_i' = AfterFailure(sa_i)
    /\ pc' = "sa_loop"
    /\ report' = <<"SaveAll", "member_error">>
    /\ UNCHANGED <<g_log, g_written>>

\* Lines 587-611 for the member whose dataset was opened: read the grid, apply
\* the bulk ledger, write, sync and close, any of which may raise.  A write
\* that raises leaves the dataset as it was; after a sync or close that raises
\* the dataset holds the old grid or the new one.
SaveAllMember ==
    /\ tally' = NoTally
    /\ UNCHANGED g_prior
    /\ pc = "sa_opened"
    /\ LET f == ensemble_members[sa_i].nc_file IN
       \E stage \in {"read", "write", "sync", "close", "ok"} :
         IF stage \in {"read", "write"} THEN SaveAllHandler(f, disk)
         ELSE \E r \in ApplyLedger(disk[f], PropagatedLedger, 1) :
              LET written == [disk EXCEPT ![f] = r.arr] IN
              IF r.raised THEN SaveAllHandler(f, disk)
              ELSE IF stage \in {"sync", "close"} THEN
                   \E d \in {disk, written} : SaveAllHandler(f, d)
              ELSE /\ disk' = written
                   /\ g_log' = [g_log EXCEPT ![f] = SubSeq(PropagatedLedger, 1, r.calls)]
                   /\ g_written' = g_written \cup {f}
                   /\ leaked' = Release(leaked, f)
                   /\ m_data' = None
                   /\ sa_i' = sa_i + 1
                   /\ pc' = "sa_loop"
                   /\ report' = <<"SaveAll", "member_saved">>
                   /\ UNCHANGED <<errors, g_failed>>
    /\ UNCHANGED <<pvars, ovars, ensemble_members, all_valid, filename, data_open,
                   landuse_data, applied_changes, bulk_applied_changes,
                   current_region>>

\* Lines 613-617: the loop is over, the tally is printed and the handler
\* returns: its locals (the counters and the Dataset objects it still refers
\* to) are dropped, and so is the history of the propagation.
SaveAllEnd ==
    /\ pc = "sa_loop"
    /\ sa_i > Len(ensemble_members)
    /\ pc' = "idle"
    /\ report' = <<"SaveAll", IF errors = 0 THEN "complete" ELSE "complete_with_errors">>
    /\ tally' = FinalTally(Len(ensemble_members), errors)
    /\ g_prior' = IF errors = 0 THEN g_prior \cup g_written ELSE g_prior
    /\ sa_i' = 0
    /\ errors' = 0
    /\ g_log' = [f \in FileIds |-> <<>>]
    /\ g_failed' = {}
    /\ g_written' = {}
    /\ leaked' = {}
    /\ UNCHANGED <<pvars, ovars, ensemble_members, all_valid, filename, data_open,
                   landuse_data, disk, applied_changes, bulk_applied_changes,
                   current_region, m_data>>

\* Lines 622-623: the window is closed; plt.show() returns and data.close()
\* releases the session's handle.
CloseWindow ==
    /\ tally' = NoTally
    /\ UNCHANGED g_prior
    /\ pc = "idle"
    /\ pc' = "closed"
    /\ data_open' = FALSE
    /\ report' = <<"Close", "closed">>
    /\ UNCHANGED <<pvars, ovars, ensemble_members, all_valid, filename, landuse_data,
                   disk, applied_changes, bulk_applied_changes, current_region,
                   saVars>>

\* ----------------------------------------- session of asf.py: actions
\* asf.py on_select: the region is stored and selected_points rebuilt from it.
AsfOnSelect ==
    /\ tally' = NoTally
    /\ UNCHANGED g_prior
    /\ pc = "asf_idle"
    /\ \E region \in SessRegions : current_region' = region
    /\ report' = <<"Select", "selected">>
    /\ UNCHANGED <<pvars, ovars, ensemble_members, all_valid, filename, data_open,
                   landuse_data, disk, applied_changes, bulk_applied_changes,
                   pc, saVars>>

\* selected_points: the in-bounds cells of the stored region, in the order
\* on_select appended them (empty before the first selection).
SelectedPoints ==
    IF current_region = <<>> THEN <<>>
    ELSE AsfPoints(landuse_data, current_region[2], current_region[1],
                   current_region[1], current_region[3], current_region[4])

\* asf.py apply_changes lines 197-210: the message printed before `return`,
\* or "ok" with (new_val, percent).
AsfValidateInputs(t_landuse, t_percent) ==
    IF ~t_landuse.numeric \/ ~t_percent.numeric
    THEN [err |-> "not_numeric", new_val |-> 0, percent |-> 0]
    ELSE IF t_landuse.value \notin LegendKeys
    THEN [err |-> "bad_landuse", new_val |-> 0, percent |-> 0]
    ELSE IF ~(0 <= t_percent.value /\ t_percent.value <= 100)
    THEN [err |-> "bad_percent", new_val |-> 0, percent |-> 0]
    ELSE [err |-> "ok", new_val |-> t_landuse.value, percent |-> t_percent.value]

\* asf.py apply_changes: the Apply button.
AsfApplyChanges ==
    /\ tally' = NoTally
    /\ UNCHANGED g_prior
    /\ pc = "asf_idle"
    /\ \E t_landuse \in LanduseTexts, t_percent \in PercentTexts :
         LET v == AsfValidateInputs(t_landuse, t_percent) IN
         IF SelectedPoints = <<>> THEN
              /\ report' = <<"Apply", "no_points">>
              /\ UNCHANGED <<landuse_data, applied_changes>>
         ELSE IF v.err # "ok" THEN
              /\ report' = <<"Apply", v.err>>
              /\ UNCHANGED <<landuse_data, applied_changes>>
         ELSE /\ Len(applied_changes) < MaxLedger
              /\ \E o \in AsfApply(landuse_data, current_region[1], current_region[2],
                                   current_region[3], current_region[4],
                                   v.new_val, v.percent) :
                     landuse_data' = o.arr
              /\ applied_changes' =
                     LedgerAppend(applied_changes,
                                  ChangeSpec(current_region, v.new_val, v.percent))
              /\ report' = <<"Apply", "changed">>
    /\ UNCHANGED <<pvars, ovars, ensemble_members, all_valid, filename, data_open, disk,
                   bulk_applied_changes, current_region, pc, saVars>>

\* asf.py save_changes: the Save button.  A write or sync that raises leaves
\* the handler by the exception, which the GUI event loop either reports,
\* the session going on, or does not survive.
AsfSaveChanges ==
    /\ tally' = NoTally
    /\ UNCHANGED g_prior
    /\ pc = "asf_idle"
    /\ \E ok \in BOOLEAN :
         IF ok THEN /\ disk' = [disk EXCEPT ![filename] = landuse_data]
                    /\ report' = <<"Save", "saved">>
                    /\ UNCHANGED <<pc, data_open>>
         ELSE /\ disk' \in {disk, [disk EXCEPT ![filename] = landuse_data]}
              /\ report' = <<"Save", "exception">>
              /\ \E survives \in BOOLEAN :
                   IF survives THEN UNCHANGED <<pc, data_open>>
                   ELSE pc' = "closed" /\ data_open' = FALSE
    /\ UNCHANGED <<pvars, ovars, ensemble_members, all_valid, filename,
                   landuse_data, applied_changes, bulk_applied_changes,
                   current_region, saVars>>

\* asf.py line 249: the window is closed, plt.show() returns and the process
\* ends, its dataset handle with it.
AsfCloseWindow ==
    /\ tally' = NoTally
    /\ UNCHANGED g_prior
    /\ pc = "asf_idle"
    /\ pc' = "closed"
    /\ data_open' = FALSE
    /\ report' = <<"Close", "closed">>
    /\ UNCHANGED <<pvars, ovars, ensemble_members, all_valid, filename, landuse_data,
                   disk, applied_changes, bulk_applied_changes, current_region,
                   saVars>>

Next ==
    \/ OnSelect
    \/ ApplyChanges
    \/ SaveChanges
    \/ ApplyAllChanges
    \/ SaveAllBegin
    \/ SaveAllSkipCurrent
    \/ SaveAllOpen
    \/ SaveAllMember
    \/ SaveAllEnd
    \/ CloseWindow
    \/ AsfOnSelect
    \/ AsfApplyChanges
    \/ AsfSaveChanges
    \/ AsfCloseWindow

Spec == Init /\ [][Next]_vars

\* ------------------------------------------- claims on the perturbation
\* The cells of the region that lie in the array, stated from the region and
\* the array bounds directly.
RegionCells(arr, call) ==
    {p \in CellsOf(arr) : /\ call.y_min <= p[1] /\ p[1] <= call.y_max
                          /\ call.x_min <= p[2] /\ p[2] <= call.x_max}

\* The cells whose value differs between two arrays of one shape.
ChangedCells(a, b) == {p \in CellsOf(a) : a[p[1] + 1][p[2] + 1] # b[p[1] + 1][p[2] + 1]}

PerturbDone == p_pc = "done"
UlanduseDone == PerturbDone /\ p_res.impl = "ulanduseEdit"

\* C5: for every region whose clamped rectangle is empty, for any target
\* category and any percent, _apply_region_to_array returns 0 without raising
\* and leaves every cell of the grid unchanged.
C5_OutsideRegionNoOp ==
    (UlanduseDone /\ RegionCells(p_arr, p_call) = {})
        => /\ ~p_res.out.raised
           /\ p_res.out.n = 0
           /\ p_res.out.arr = p_arr

\* C5 witness: a region wholly to the right of the grid, at 100 percent with a
\* category the grid does not hold, has been perturbed.
C5_Witness ==
    /\ UlanduseDone
    /\ p_call.x_min = Cols /\ p_call.x_max = Cols
    /\ p_call.y_min = 0 /\ p_call.y_max = Rows - 1
    /\ p_call.percent = 100 /\ p_call.new_val = 3

\* C6: with percent = 0 the routine returns 0 and the grid is unchanged; with
\* percent = 100 every cell of the clamped region equals the target category
\* afterwards and the returned count is the number of cells of that region
\* (both implementations).
C6_ZeroAndHundredPercent ==
    PerturbDone =>
        /\ p_call.percent = 0 =>
              /\ ~p_res.out.raised
              /\ p_res.out.n = 0
              /\ p_res.out.arr = p_arr
        /\ p_call.percent = 100 =>
              /\ ~p_res.out.raised
              /\ \A p \in RegionCells(p_arr, p_call) :
                     p_res.out.arr[p[1] + 1][p[2] + 1] = p_call.new_val
              /\ p_res.out.n = Cardinality(RegionCells(p_arr, p_call))

\* C6 witness: a 100 percent call on a region that straddles the grid edge and
\* covers more than one row and column has changed cells.
C6_Witness ==
    /\ UlanduseDone
    /\ p_call.percent = 100
    /\ p_call.x_min = 1 /\ p_call.x_max = Cols
    /\ p_call.y_min = -1 /\ p_call.y_max = Rows - 1
    /\ p_call.new_val = 3
    /\ p_res.out.n = Rows * (Cols - 1)

\* C7: no cell is selected twice: the number of distinct cells written equals
\* the returned count, every written cell lies in the grid and holds the target
\* category.
C7_DistinctCells ==
    (UlanduseDone /\ ~p_res.out.raised) =>
        /\ Cardinality(p_res.out.cells) = p_res.out.n
        /\ p_res.out.cells \subseteq CellsOf(p_arr)
        /\ \A p \in p_res.out.cells :
               p_res.out.arr[p[1] + 1][p[2] + 1] = p_call.new_val

\* C7 witness: a draw of two or more cells from a region with several rows and
\* a different number of columns.
C7_Witness ==
    /\ UlanduseDone
    /\ p_call.x_min = 0 /\ p_call.x_max = Cols - 1
    /\ p_call.y_min = 0 /\ p_call.y_max = Rows - 1
    /\ p_call.percent = 50
    /\ p_res.out.n >= 2
    /\ \E p, q \in p_res.out.cells : p[1] # q[1] /\ p[2] # q[2]

\* C8: for percent in [0, 100] the routine returns exactly
\* floor(n_pts * percent / 100) with n_pts the number of cells of the region
\* clamped to the grid, and does not mutate anything when that is 0.
C8_ReturnedCount ==
    (UlanduseDone /\ p_call.percent >= 0 /\ p_call.percent <= 100) =>
        /\ ~p_res.out.raised
        /\ p_res.out.n = (Cardinality(RegionCells(p_arr, p_call)) * p_call.percent) \div 100
        /\ p_res.out.n = 0 => p_res.out.arr = p_arr

\* C8 witness: a region reaching past the grid, whose clamped cell count is
\* smaller than its own and whose count is rounded down to a non-zero n.
C8_Witness ==
    /\ UlanduseDone
    /\ p_call.x_min = -1 /\ p_call.x_max = Cols
    /\ p_call.y_min = 0 /\ p_call.y_max = Rows
    /\ p_call.percent = 34
    /\ p_res.out.n = (Rows * Cols * 34) \div 100
    /\ p_res.out.n > 0
    /\ ChangedCells(p_arr, p_res.out.arr) # {}

\* ------------------------------------------------- claims on the session
\* The datasets of the registered members.
MemberFiles == {ensemble_members[i].nc_file : i \in 1 .. Len(ensemble_members)}

\* The member loop of Save All has run to its end (the tally is about to be
\* printed).
LoopDone == pc = "sa_loop" /\ sa_i > Len(ensemble_members)

\* s is a subsequence of t: the entries of s occur in t in the same order.
RECURSIVE IsSubsequence(_, _)
IsSubsequence(s, t) ==
    IF s = <<>> THEN TRUE
    ELSE IF t = <<>> THEN FALSE
    ELSE IF Head(s) = Head(t) THEN IsSubsequence(Tail(s), Tail(t))
    ELSE IsSubsequence(s, Tail(t))

\* s is a prefix of t.
IsPrefix(s, t) == Len(s) <= Len(t) /\ SubSeq(t, 1, Len(s)) = s

\* C1: when the member loop of Save All ends, every registered member other
\* than the current one either raised (and is counted as a failure) or has its
\* dataset written; a failure of one member never keeps a later member from
\* being written.
C1_FailureDoesNotAbort ==
    LoopDone =>
        /\ \A f \in MemberFiles \ {filename} : (f \in g_written) <=> (f \notin g_failed)
        /\ errors = Cardinality(g_failed)

\* C1 witness: a propagation in which a member failed and a member after it in
\* registry order was written.
C1_Witness ==
    /\ LoopDone
    /\ \E f \in g_failed : \E g \in g_written : f < g

\* C2: a step of Apply All or Save All taken while all_valid is false, or of
\* Save All while the bulk ledger is empty, reports a refusal and changes
\* neither a dataset, the open handles, the in-memory grid nor a ledger.
C2_GateRefusal ==
    [][ ( /\ pc = "idle"
          /\ report'[1] \in {"ApplyAll", "SaveAll"}
          /\ \/ ~all_valid
             \/ report'[1] = "SaveAll" /\ bulk_applied_changes = <<>> )
        => ( /\ report'[2] \in {"disabled_no_members", "disabled_missing", "no_bulk"}
             /\ ~all_valid => report'[2] = GateReason
             /\ UNCHANGED <<disk, landuse_data, applied_changes,
                            bulk_applied_changes, data_open, m_data, leaked, pc>> )
      ]_vars

\* C2 witness: Save All was refused for want of bulk entries while the full
\* ledger held an edit that is not on disk.
C2_Witness ==
    /\ report = <<"SaveAll", "no_bulk">>
    /\ all_valid
    /\ applied_changes # <<>>
    /\ landuse_data # disk[filename]

\* C3: at the end of a propagation without failures every registered member
\* other than the current one was written with exactly the bulk ledger applied
\* to its grid, entry by entry in recorded order, and nothing was applied to
\* the current member's dataset.
C3_BulkLedgerAppliedOnce ==
    (LoopDone /\ errors = 0) =>
        /\ \A f \in MemberFiles \ {filename} :
               f \in g_written /\ g_log[f] = bulk_applied_changes
        /\ g_log[filename] = <<>>
        /\ filename \notin g_written

\* C3 witness: a propagation without failures, from a session whose file is a
\* registered member and whose full ledger also holds a single-member Apply.
C3_Witness ==
    /\ LoopDone /\ errors = 0
    /\ filename \in MemberFiles
    /\ Len(ensemble_members) = NMembers
    /\ Len(applied_changes) > Len(bulk_applied_changes)
    /\ \E f \in g_written : disk[f] # InitialGrid

\* C4 as stated: at most one writable dataset handle is open at any time.
C4_AtMostOneHandle == Cardinality(OpenHandles) <= 1

\* C4 amended: besides the session's own handle, which stays open until the
\* window is closed, the only handle open is that of the member being
\* processed, apart from handles of failed members whose close() raised; so
\* member datasets are opened one at a time, next to the session's.
C4_OneMemberHandleAtATime ==
    /\ \A f \in OpenHandles \ g_failed :
           (data_open /\ f = filename) \/ (pc = "sa_opened" /\ f = m_data)
    /\ m_data # None => (pc = "sa_opened" /\ m_data # filename)
    /\ pc \in {"idle", "sa_loop", "sa_opened"} => data_open
    /\ Cardinality(OpenHandles \ leaked) <= 2

\* C4 witness: a member's dataset is open next to the session's, after an
\* earlier member was written and closed.
C4_Witness ==
    /\ pc = "sa_opened"
    /\ data_open
    /\ g_written # {}
    /\ Cardinality(OpenHandles) = 2

\* C9: the bulk ledger is always a subsequence of the full ledger; a step that
\* extends the full ledger appends one entry to it, and the bulk ledger gains
\* that same entry exactly when the step is an Apply All.
C9_BulkWithinFull ==
    /\ [](IsSubsequence(bulk_applied_changes, applied_changes))
    /\ [][ /\ applied_changes' # applied_changes =>
                /\ Len(applied_changes') = Len(applied_changes) + 1
                /\ applied_changes' =
                       Append(applied_changes, applied_changes'[Len(applied_changes')])
                /\ IF report'[1] = "ApplyAll"
                   THEN bulk_applied_changes' =
                            Append(bulk_applied_changes,
                                   applied_changes'[Len(applied_changes')])
                   ELSE bulk_applied_changes' = bulk_applied_changes
           /\ bulk_applied_changes' # bulk_applied_changes =>
                applied_changes' # applied_changes
         ]_vars

\* C9 witness: a single-member Apply was recorded before an Apply All with
\* other parameters.
C9_Witness ==
    /\ Len(bulk_applied_changes) = 1
    /\ Len(applied_changes) = 2
    /\ applied_changes[1] # bulk_applied_changes[1]
    /\ applied_changes[2] = bulk_applied_changes[1]

\* C10: every step leaves each ledger's contents as a prefix of its contents
\* afterwards.
C10_AppendOnly ==
    [][ /\ IsPrefix(applied_changes, applied_changes')
        /\ IsPrefix(bulk_applied_changes, bulk_applied_changes') ]_vars

\* C10 witness: Save All has completed with both ledgers holding entries.
C10_Witness ==
    /\ report = <<"SaveAll", "complete">>
    /\ Len(applied_changes) = MaxLedger
    /\ bulk_applied_changes # <<>>
    /\ disk[filename] = landuse_data

\* ---------------------------------------------- replay command: model
\* A text is a sequence of one-character strings.  A float is given by the
\* decimal numeral that denotes it, Dec(m, e) = m * 10^e with m >= 0; the
\* percents drawn are not halfway between two numerals of six digits, where
\* the binary value of the float would decide the rounding.
DigitChars == <<"0", "1", "2", "3", "4", "5", "6", "7", "8", "9">>

Dec(m, e) == [m |-> m, e |-> e]

RECURSIVE Pow10(_)
Pow10(k) == IF k <= 0 THEN 1 ELSE 10 * Pow10(k - 1)

\* The decimal digits of a natural number, most significant first.
RECURSIVE NatDigits(_)
NatDigits(n) == IF n < 10 THEN <<n>> ELSE Append(NatDigits(n \div 10), n % 10)

DigitsText(ds) == [i \in 1 .. Len(ds) |-> DigitChars[ds[i] + 1]]

\* f'{x}' for an int x
IntText(x) ==
    IF x < 0 THEN <<"-">> \o DigitsText(NatDigits(-x)) ELSE DigitsText(NatDigits(x))

\* The digits without their trailing zeros (at least one digit is kept).
RECURSIVE StripZeros(_)
StripZeros(ds) ==
    IF Len(ds) > 1 /\ ds[Len(ds)] = 0 THEN StripZeros(SubSeq(ds, 1, Len(ds) - 1))
    ELSE ds

\* The precision of the 'g' presentation type when none is given.
GPrecision == 6

\* Fixed notation of 0.d1d2... * 10^(x + 1): the digits with the decimal point
\* after digit x + 1, zeros added where the digits do not reach.
FixedText(ds, x) ==
    IF x >= 0
    THEN LET int_ds  == [i \in 1 .. x + 1 |-> IF i <= Len(ds) THEN ds[i] ELSE 0]
             frac_ds == SubSeq(ds, x + 2, Len(ds))
         IN  DigitsText(int_ds)
             \o (IF frac_ds = <<>> THEN <<>> ELSE <<".">> \o DigitsText(frac_ds))
    ELSE <<"0", ".">> \o DigitsText([i \in 1 .. (-x) - 1 |-> 0]) \o DigitsText(ds)

\* Scientific notation: d[.ddd]e+XX, the exponent with two digits at least.
SciText(ds, x) ==
    LET ax == IF x < 0 THEN -x ELSE x
    IN  DigitsText(<<ds[1]>>)
        \o (IF Len(ds) > 1 THEN <<".">> \o DigitsText(SubSeq(ds, 2, Len(ds))) ELSE <<>>)
        \o <<"e", IF x < 0 THEN "-" ELSE "+">>
        \o (IF ax < 10 THEN <<"0">> ELSE <<>>) \o DigitsText(NatDigits(ax))

\* The rounding left out: the digits past the sixth are cut off.
RoundDigitsTruncate(m, drop) == m \div Pow10(drop)

\* m without its last `drop` digits, rounded to nearest (half to even).
RoundDigits(m, drop) ==
    LET q == m \div Pow10(drop)
        r == m % Pow10(drop)
    IN  IF 2 * r > Pow10(drop) \/ (2 * r = Pow10(drop) /\ q % 2 = 1) THEN q + 1 ELSE q

\* f'{p:g}': p rounded to GPrecision significant digits, in fixed notation if
\* its decimal exponent x satisfies -4 <= x < GPrecision and in scientific
\* notation otherwise, trailing zeros (and a bare decimal point) removed.
FormatG(p) ==
    IF p.m = 0 THEN <<"0">>
    ELSE LET k    == Len(NatDigits(p.m))
             drop == IF k > GPrecision THEN k - GPrecision ELSE 0
             ds1  == NatDigits(RoundDigits(p.m, drop))
             x    == p.e + drop + Len(ds1) - 1
             ds   == StripZeros(ds1)
         IN  IF x < -4 \/ x >= GPrecision THEN SciText(ds, x) ELSE FixedText(ds, x)

\* ' '.join(texts)
RECURSIVE JoinSpace(_)
JoinSpace(texts) ==
    IF texts = <<>> THEN <<>>
    ELSE IF Len(texts) = 1 THEN texts[1]
    ELSE texts[1] \o <<" ">> \o JoinSpace(Tail(texts))

\* The entries rendered last entry first.
ReplayOrderReversed(ledger) == [i \in 1 .. Len(ledger) |-> ledger[Len(ledger) + 1 - i]]

\* `for x, y, x2, y2, v, p in applied_changes`: the order the generator runs in.
ReplayOrder(ledger) == ledger

\* f'--apply {x},{y},{x2},{y2},{v},{p:g}'
ApplyToken(c) ==
    <<"-", "-", "a", "p", "p", "l", "y", " ">>
    \o IntText(c[1]) \o <<",">> \o IntText(c[2]) \o <<",">> \o IntText(c[3]) \o <<",">>
    \o IntText(c[4]) \o <<",">> \o IntText(c[5]) \o <<",">> \o FormatG(c[6])

\* args_str of save_changes (ulanduseEdit.py lines 477-480)
ReplayArgs(ledger) ==
    JoinSpace([i \in 1 .. Len(ledger) |-> ApplyToken(ReplayOrder(ledger)[i])])

\* apply_args of save_changes (asf.py lines 234-237)
AsfReplayArgs(ledger) ==
    JoinSpace([i \in 1 .. Len(ledger) |-> ApplyToken(ReplayOrder(ledger)[i])])

\* Ledger entries of the replay specification: the two of the rendering
\* example, and entries with a negative coordinate, with percents of more than
\* six digits, below 1e-4, 0, and a fraction.
ReplayEntries ==
    {<<0, 0, 5, 5, 3, Dec(500, -1)>>,
     <<10, 10, 20, 20, 7, Dec(100, 0)>>,
     <<-1, 0, 104, 7, 12, Dec(125, -1)>>,
     <<0, 0, 5, 5, 3, Dec(333333333, -7)>>,
     <<0, 0, 5, 5, 3, Dec(9999999, -5)>>,
     <<2, 3, 2, 3, 1, Dec(1, -5)>>,
     <<2, 3, 2, 3, 1, Dec(0, 0)>>,
     <<2, 3, 2, 3, 1, Dec(25, -2)>>}

RECURSIVE SeqsUpTo(_, _)
SeqsUpTo(S, n) ==
    IF n = 0 THEN {<<>>}
    ELSE LET shorter == SeqsUpTo(S, n - 1)
         IN  shorter \cup {Append(q, e) : q \in shorter, e \in S}

InitReplay ==
    /\ PerturbOff /\ SessionOff /\ RegistryOff /\ BatchOff /\ WorkflowOff
    /\ r_pc = "ready"
    /\ r_applied_changes \in SeqsUpTo(ReplayEntries, MaxLedger)
    /\ r_out = "none"

\* What Save printed after the "Saved" line: the replay command if the ledger
\* holds an entry, nothing otherwise or when the write raised.
ReplayOutput(impl, ok, text) ==
    [impl |-> impl, saved |-> ok,
     printed |-> ok /\ r_applied_changes # <<>>,
     args_str |-> IF ok /\ r_applied_changes # <<>> THEN text ELSE <<>>]

\* save_changes of ulanduseEdit.py, lines 466-484: a write or sync that raises
\* is reported and the handler returns before the replay command.
SaveChangesReplay ==
    /\ r_pc = "ready"
    /\ \E ok \in BOOLEAN :
         r_out' = ReplayOutput("ulanduseEdit", ok, ReplayArgs(r_applied_changes))
    /\ r_pc' = "done"
    /\ UNCHANGED <<r_applied_changes, pvars, svars, cvars, bvars, wvars>>

\* save_changes of asf.py, lines 228-241: a write or sync that raises leaves
\* the handler by the exception.
AsfSaveChangesReplay ==
    /\ r_pc = "ready"
    /\ \E ok \in BOOLEAN :
         r_out' = ReplayOutput("asf", ok, AsfReplayArgs(r_applied_changes))
    /\ r_pc' = "done"
    /\ UNCHANGED <<r_applied_changes, pvars, svars, cvars, bvars, wvars>>

NextReplay == SaveChangesReplay \/ AsfSaveChangesReplay

SpecReplay == InitReplay /\ [][NextReplay]_vars

\* --------------------------------------------- replay command: claims
\* The pieces of a text between the occurrences of a separator character.
RECURSIVE SplitOn(_, _)
SplitOn(text, sep) ==
    IF \A i \in 1 .. Len(text) : text[i] # sep THEN <<text>>
    ELSE LET k == CHOOSE i \in 1 .. Len(text) :
                      text[i] = sep /\ \A j \in 1 .. i - 1 : text[j] # sep
         IN  <<SubSeq(text, 1, k - 1)>> \o SplitOn(SubSeq(text, k + 1, Len(text)), sep)

IsDigitText(text) ==
    text # <<>> /\ \A i \in 1 .. Len(text) : \E d \in 0 .. 9 : DigitChars[d + 1] = text[i]

\* The number a text of digits denotes.
RECURSIVE NatOf(_)
NatOf(text) ==
    IF text = <<>> THEN 0
    ELSE 10 * NatOf(SubSeq(text, 1, Len(text) - 1))
         + (CHOOSE d \in 0 .. 9 : DigitChars[d + 1] = text[Len(text)])

IsIntText(text) ==
    IF text # <<>> /\ text[1] = "-" THEN IsDigitText(Tail(text)) ELSE IsDigitText(text)

IntOf(text) == IF text[1] = "-" THEN -NatOf(Tail(text)) ELSE NatOf(text)

\* A numeral as float() reads it: digits, an optional fraction, an optional
\* exponent.
IsDecText(text) ==
    LET me  == SplitOn(text, "e")
        ipf == SplitOn(me[1], ".")
    IN  /\ Len(me) <= 2 /\ Len(ipf) <= 2
        /\ IsDigitText(ipf[1])
        /\ Len(ipf) = 2 => IsDigitText(ipf[2])
        /\ Len(me) = 2 => /\ Len(me[2]) >= 2
                          /\ me[2][1] \in {"+", "-"}
                          /\ IsDigitText(Tail(me[2]))

\* The number such a numeral denotes.
DecOf(text) ==
    LET me   == SplitOn(text, "e")
        ipf  == SplitOn(me[1], ".")
        frac == IF Len(ipf) = 2 THEN ipf[2] ELSE <<>>
        ex   == IF Len(me) = 2
                THEN (IF me[2][1] = "-" THEN -NatOf(Tail(me[2])) ELSE NatOf(Tail(me[2])))
                ELSE 0
    IN  Dec(NatOf(ipf[1] \o frac), ex - Len(frac))

\* The numeral has no zero after its last non-zero fraction digit and no bare
\* decimal point.
NoTrailingZeros(text) ==
    LET mant == SplitOn(text, "e")[1]
    IN  (\E i \in 1 .. Len(mant) : mant[i] = ".") => mant[Len(mant)] \notin {"0", "."}

\* v is p to six significant digits: equal to p if p has no more digits, and
\* within half a unit of the sixth digit of p otherwise.
SixDigitsOf(v, p) ==
    LET k    == Len(NatDigits(p.m))
        emin == IF v.e <= p.e THEN v.e ELSE p.e
        vv   == v.m * Pow10(v.e - emin)
        pp   == p.m * Pow10(p.e - emin)
        diff == IF vv >= pp THEN vv - pp ELSE pp - vv
    IN  IF k <= 6 THEN diff = 0
        ELSE 2 * diff <= Pow10(p.e + k - 6 - emin)

\* The text "--apply".
ApplyFlag == <<"-", "-", "a", "p", "p", "l", "y">>

\* Entry i of the ledger is what words 2i-1 and 2i of the text say.
TokenRenders(words, i, c) ==
    LET fields == SplitOn(words[2 * i], ",")
    IN  /\ words[2 * i - 1] = ApplyFlag
        /\ Len(fields) = 6
        /\ \A j \in 1 .. 5 : IsIntText(fields[j]) /\ IntOf(fields[j]) = c[j]
        /\ IsDecText(fields[6])
        /\ NoTrailingZeros(fields[6])
        /\ SixDigitsOf(DecOf(fields[6]), c[6])

\* The ledger of the rendering example and the text it is to give.
ExampleLedger ==
    <<<<0, 0, 5, 5, 3, Dec(500, -1)>>, <<10, 10, 20, 20, 7, Dec(100, 0)>>>>
ExampleText ==
    <<"-", "-", "a", "p", "p", "l", "y", " ", "0", ",", "0", ",", "5", ",", "5", ",",
      "3", ",", "5", "0", " ",
      "-", "-", "a", "p", "p", "l", "y", " ", "1", "0", ",", "1", "0", ",", "2", "0",
      ",", "2", "0", ",", "7", ",", "1", "0", "0">>

\* C11: a Save that succeeds with a non-empty full ledger prints a replay
\* command whose arguments are one "--apply x_min,y_min,x_max,y_max,category,
\* percent" token per ledger entry, for every entry and in recorded order, the
\* integers in decimal and the percent to six significant digits without
\* trailing zeros; the ledger (0,0,5,5,3,50.0), (10,10,20,20,7,100) gives
\* "--apply 0,0,5,5,3,50 --apply 10,10,20,20,7,100" (both implementations).
C11_ReplayTokens ==
    r_pc = "done" =>
        /\ r_out.printed <=> (r_out.saved /\ r_applied_changes # <<>>)
        /\ r_out.printed =>
             LET words == SplitOn(r_out.args_str, " ")
             IN  /\ Len(words) = 2 * Len(r_applied_changes)
                 /\ \A i \in 1 .. Len(r_applied_changes) :
                        TokenRenders(words, i, r_applied_changes[i])
        /\ (r_out.printed /\ r_applied_changes = ExampleLedger)
               => r_out.args_str = ExampleText

\* C11 witness: the ledger of the example, recorded in that order, has been
\* rendered by the Save handler of ulanduseEdit.py.
C11_Witness ==
    /\ r_pc = "done"
    /\ r_out.impl = "ulanduseEdit"
    /\ r_out.printed
    /\ r_applied_changes = ExampleLedger
    /\ Len(r_out.args_str) > 0

\* ------------------------------------------------ member registry: model
\* Number of *.in entries the working directory holds at most.
MaxFiles == 4

\* A *.in entry of the working directory:
\*   in_file    its name (an id);
\*   first      what its first character is to Python: "decimal" (str.isdigit
\*              holds and \d matches it), "digit" (str.isdigit holds and \d
\*              does not match it: a superscript or circled digit), "other";
\*   num        the number its leading run of \d characters denotes (0: none);
\*   readable   whether open() and read() succeed;
\*   domname    whether the text holds a domname = '...' setting;
\*   nc_exists  whether <dirter>/<domname>_DOMAIN000.nc is a file.
InFile(id, first, num, readable, domname, nc_exists) ==
    [in_file |-> id, first |-> first, num |-> num, readable |-> readable,
     domname |-> domname, nc_exists |-> nc_exists]

\* The entries a directory is drawn from: members 1, 2 and 10 (the dataset of
\* member 10 missing), a second file of ordinal 1, a numbered file without
\* domname, a numbered file that cannot be read, the single-run configuration,
\* and a file whose name starts with a superscript two.
InFiles ==
    {InFile(1, "decimal", 1, TRUE, TRUE, TRUE),
     InFile(2, "decimal", 2, TRUE, TRUE, TRUE),
     InFile(3, "decimal", 10, TRUE, TRUE, FALSE),
     InFile(4, "decimal", 1, TRUE, TRUE, TRUE),
     InFile(5, "decimal", 3, TRUE, FALSE, TRUE),
     InFile(6, "decimal", 2, FALSE, TRUE, TRUE),
     InFile(7, "other", 0, TRUE, TRUE, TRUE),
     InFile(8, "digit", 0, TRUE, TRUE, TRUE)}

\* sorted(glob.glob('*.in')): the entries in the order of their names, which
\* is any order as far as their ordinals go ('10a.in' < '2a.in' < '9a.in').
GlobOrders ==
    {q \in SeqsUpTo(InFiles, MaxFiles) :
        \A i, j \in 1 .. Len(q) : i # j => q[i].in_file # q[j].in_file}

\* fname[0].isdigit()
IsDigit(f) == f.first \in {"decimal", "digit"}

\* The members.append({...}) of one entry: num is int of the leading \d+ if
\* re.match finds one, else 0.
MemberOf(f) ==
    [num |-> IF f.first = "decimal" THEN f.num ELSE 0,
     in_file |-> f.in_file, nc_file |-> f.in_file, nc_exists |-> f.nc_exists]

\* The loop of scan_ensemble_members: the entries it appends, in glob order.
RECURSIVE ScanLoop(_)
ScanLoop(files) ==
    IF files = <<>> THEN <<>>
    ELSE LET f == Head(files)
         IN  (IF ~IsDigit(f) THEN <<>>
              ELSE IF ~f.readable THEN <<>>
              ELSE IF ~f.domname THEN <<>>
              ELSE <<MemberOf(f)>>)
             \o ScanLoop(Tail(files))

\* The list left in the order the loop appended.
SortByNumSkipped(members) == members

\* members.sort(key=lambda x: x['num']): a stable sort.
RECURSIVE SortByNum(_)
SortByNum(members) ==
    IF members = <<>> THEN <<>>
    ELSE LET rest == SortByNum(SubSeq(members, 1, Len(members) - 1))
             m    == members[Len(members)]
             k    == Cardinality({i \in 1 .. Len(rest) : rest[i].num <= m.num})
         IN  SubSeq(rest, 1, k) \o <<m>> \o SubSeq(rest, k + 1, Len(rest))

\* scan_ensemble_members()
ScanEnsembleMembers(files) == SortByNum(ScanLoop(files))

InitRegistry ==
    /\ PerturbOff /\ ReplayOff /\ BatchOff /\ WorkflowOff
    /\ SessionOff
    /\ c_pc = "ready"
    /\ cwd \in GlobOrders

\* Lines 151-152: the scan at start-up and the gate computed from it.
Scan ==
    /\ c_pc = "ready"
    /\ ensemble_members' = ScanEnsembleMembers(cwd)
    /\ all_valid' = AllValidOf(ensemble_members')
    /\ c_pc' = "done"
    /\ UNCHANGED <<cwd, pvars, rvars, bvars, wvars, filename, data_open, landuse_data,
                   disk, applied_changes, bulk_applied_changes, current_region, pc,
                   sa_i, m_data, leaked, errors, report, tally, g_log, g_failed,
                   g_written, g_prior>>

NextRegistry == Scan

SpecRegistry == InitRegistry /\ [][NextRegistry]_vars

\* ----------------------------------------------- member registry: claims
ScanDone == c_pc = "done"

\* The entries of the directory, and those the registry lists.
CwdFiles == {cwd[i] : i \in 1 .. Len(cwd)}
ListedFiles == {ensemble_members[i].in_file : i \in 1 .. Len(ensemble_members)}

\* C12: scan() returns exactly the configuration files whose name starts with
\* a decimal digit and whose domain identifier can be parsed, each once,
\* sorted by ordinal; a numbered file without a parsable domain identifier is
\* not listed.
C12_ScanExact ==
    ScanDone =>
        /\ ListedFiles = {f.in_file : f \in {g \in CwdFiles :
                              g.first = "decimal" /\ g.readable /\ g.domname}}
        /\ Cardinality(ListedFiles) = Len(ensemble_members)
        /\ \A i, j \in 1 .. Len(ensemble_members) :
               i < j => ensemble_members[i].num <= ensemble_members[j].num

\* C13: all_valid is true if and only if at least one member was scanned and
\* the dataset of every scanned member exists; it is false when the registry is
\* empty or the dataset of any one member is missing.
C13_AllValid ==
    ScanDone =>
        (all_valid <=>
            /\ ensemble_members # <<>>
            /\ \A f \in CwdFiles : f.in_file \in ListedFiles => f.nc_exists)

\* C13 witness: a scan that listed two members and skipped a file, all
\* datasets present, has opened the gate.
C13_Witness ==
    /\ ScanDone
    /\ all_valid
    /\ Len(ensemble_members) >= 2
    /\ Len(cwd) > Len(ensemble_members)

\* ------------------------------------------------- workflow state: model
\* utils/ueditsetupEnsemble.py, run after run in one working directory (one
\* run at a time).  A run is split at the external commands it waits for.
\* Largest member count drawn for a begin phase.
MaxCount == 2

BaseNames == {"regcm.in", "test.in"}
BaseDomnames == {"dom", "eu44"}
Counts == 0 .. MaxCount
\* Return codes of an external command: success and two failures.
ReturnCodes == {0, 1, 2}

\* No run has ended yet.
NoExit == [code |-> None, msg |-> "none"]
Exit(code, msg) == [code |-> code, msg |-> msg]

NoLocals == [mode |-> "none", base_name |-> "", count |-> 0, base_domname |-> ""]
Locals(mode, base_name, count, base_domname) ==
    [mode |-> mode, base_name |-> base_name, count |-> count,
     base_domname |-> base_domname]

\* A JSON text is the sequence of its members, each a name and a value with
\* its JSON type; a Python dict is a function from its keys.
JString(v) == [type |-> "string", v |-> v]
JNumber(v) == [type |-> "number", v |-> v]

\* The record with the two names exchanged.
StateDictSwapped(base_name, count, base_domname) ==
    [base_name |-> base_domname, count |-> count, base_domname |-> base_name]

\* Line 58: state = {'base_name': base_name, 'count': count, 'base_domname':
\* base_domname}
StateDict(base_name, count, base_domname) ==
    [base_name |-> base_name, count |-> count, base_domname |-> base_domname]

\* json.dump(state, f): the members in insertion order, str as a JSON string
\* and int as a JSON number.
JsonDump(state) ==
    <<<<"base_name", JString(state.base_name)>>,
      <<"count", JNumber(state.count)>>,
      <<"base_domname", JString(state.base_domname)>>>>

\* json.load(f): a dict of the members' names, the last member of a name
\* giving its value.
JsonLoad(text) ==
    [k \in {text[i][1] : i \in 1 .. Len(text)} |->
        LET last == CHOOSE i \in 1 .. Len(text) :
                        text[i][1] = k /\ \A j \in i + 1 .. Len(text) : text[j][1] # k
        IN  text[last][2].v]

\* A file of the working directory: whether it exists, and its text.
NoFile == [exists |-> FALSE, text |-> <<>>]
File(text) == [exists |-> TRUE, text |-> text]

\* save_state(work_dir, base_name, count, base_domname): the file written.
SaveState(base_name, count, base_domname) ==
    File(JsonDump(StateDict(base_name, count, base_domname)))

\* load_state line 65: os.path.isfile(path)
StateExists(file) == file.exists

\* The record left in place.
RemoveStateSkipped(file) == file

\* Line 105: os.remove(os.path.join(work_dir, STATE_FILE))
RemoveState(file) == NoFile

\* The record removed as soon as icbc has returned.
ClearedAfterIcbc(outcome) == outcome \in {"copy_failed", "sbatch_failed", "ok"}

\* Line 105 is reached when sst, icbc, the copy and write_sbatch have all
\* returned.
Cleared(outcome) == outcome = "ok"

InitWorkflow ==
    /\ PerturbOff /\ SessionOff /\ ReplayOff /\ RegistryOff /\ BatchOff
    /\ w_pc = "shell"
    /\ state_file = NoFile
    /\ w_locals = NoLocals
    /\ w_ran = <<>>
    /\ w_rcs = <<>>
    /\ w_exit = NoExit
    /\ w_done = {}
    /\ g_saved = <<>>

wOther == <<pvars, svars, rvars, cvars, bvars>>

\* The call taken to return whatever the command's return code.
RunCmdReturnsAlways(rc) == TRUE

\* run_cmd lines 50-54: the call returns only if the command's return code is
\* 0; otherwise it ends the run by sys.exit(returncode).
RunCmdReturns(rc) == rc = 0

\* Lines 154-159: any other command line.
BadUsage ==
    /\ w_pc = "shell"
    /\ w_locals' = Locals("usage", "", 0, "")
    /\ w_ran' = <<>>
    /\ w_rcs' = <<>>
    /\ w_done' = {}
    /\ w_exit' = Exit(1, "usage")
    /\ UNCHANGED <<w_pc, state_file, g_saved, wOther>>

\* Lines 109-144: `<base_file> <count>`: the member files and directories are
\* created, the domain name is read, and terrain is about to be run.  A
\* missing base file exits with 1; a base file without a domname setting
\* (domname "" here) ends the run by an AttributeError at line 141.
BeginStart ==
    /\ w_pc = "shell"
    /\ w_ran' = <<>>
    /\ w_rcs' = <<>>
    /\ \E base_name \in BaseNames, count \in Counts, is_file \in BOOLEAN,
          domname \in BaseDomnames \cup {""} :
         IF ~is_file THEN
              /\ w_locals' = Locals("begin", "", count, "")
              /\ w_exit' = Exit(1, "file_not_found")
              /\ w_done' = {}
              /\ UNCHANGED w_pc
         ELSE IF domname = "" THEN
              /\ w_locals' = Locals("begin", base_name, count, "")
              /\ w_exit' = Exit(1, "exception")
              /\ w_done' = {"members_created"}
              /\ UNCHANGED w_pc
         ELSE /\ w_locals' = Locals("begin", base_name, count, domname)
              /\ w_exit' = NoExit
              /\ w_done' = {"members_created"}
              /\ w_pc' = "b_terrain"
    /\ UNCHANGED <<state_file, g_saved, wOther>>

\* Line 145: run_cmd(["terrain", m1_in_file], work_dir); run_cmd exits with
\* the command's return code if that is not 0.
BeginTerrain ==
    /\ w_pc = "b_terrain"
    /\ w_ran' = Append(w_ran, "terrain")
    /\ \E rc \in ReturnCodes :
         /\ w_rcs' = Append(w_rcs, rc)
         /\ IF ~RunCmdReturns(rc) THEN
                 /\ w_exit' = Exit(rc, "cmd_failed")
                 /\ w_pc' = "shell"
                 /\ UNCHANGED w_done
            ELSE /\ w_done' = w_done \cup {"terrain"}
                 /\ w_pc' = "b_cp"
                 /\ UNCHANGED w_exit
    /\ UNCHANGED <<state_file, w_locals, g_saved, wOther>>

\* Lines 147-152: run_cmd(["cp", ...]), then save_state and the hint to run
\* `continue`.
BeginCp ==
    /\ w_pc = "b_cp"
    /\ w_ran' = Append(w_ran, "cp")
    /\ w_pc' = "shell"
    /\ \E rc \in ReturnCodes :
         /\ w_rcs' = Append(w_rcs, rc)
         /\ IF ~RunCmdReturns(rc) THEN
                 /\ w_exit' = Exit(rc, "cmd_failed")
                 /\ UNCHANGED <<w_done, state_file, g_saved>>
            ELSE /\ state_file' = SaveState(w_locals.base_name, w_locals.count,
                                            w_locals.base_domname)
                 /\ g_saved' = <<w_locals.base_name, w_locals.count,
                                 w_locals.base_domname>>
                 /\ w_done' = w_done \cup {"cp", "save"}
                 /\ w_exit' = Exit(0, "terrain_complete")
    /\ UNCHANGED <<w_locals, wOther>>

\* Lines 77-89: `continue`: load_state exits with 1 if there is no record;
\* otherwise the record is read and sst is about to be run.
ContinueStart ==
    /\ w_pc = "shell"
    /\ w_ran' = <<>>
    /\ w_rcs' = <<>>
    /\ w_done' = {}
    /\ IF ~StateExists(state_file) THEN
            /\ w_locals' = Locals("continue", "", 0, "")
            /\ w_exit' = Exit(1, "no_paused_run")
            /\ UNCHANGED w_pc
       ELSE LET state == JsonLoad(state_file.text) IN
            /\ w_locals' = Locals("continue", state["base_name"], state["count"],
                                  state["base_domname"])
            /\ w_exit' = NoExit
            /\ w_pc' = "c_sst"
    /\ UNCHANGED <<state_file, g_saved, wOther>>

\* Line 89, first pass of the loop: run_cmd(["sst", m1_in_file], work_dir)
ContinueSst ==
    /\ w_pc = "c_sst"
    /\ w_ran' = Append(w_ran, "sst")
    /\ \E rc \in ReturnCodes :
         /\ w_rcs' = Append(w_rcs, rc)
         /\ IF rc # 0 THEN
                 /\ w_exit' = Exit(rc, "cmd_failed")
                 /\ w_pc' = "shell"
                 /\ UNCHANGED w_done
            ELSE /\ w_done' = w_done \cup {"sst"}
                 /\ w_pc' = "c_icbc"
                 /\ UNCHANGED w_exit
    /\ UNCHANGED <<state_file, w_locals, g_saved, wOther>>

\* Lines 89-106: run_cmd(["icbc", ...]), the copy of 1input to the other
\* members if count > 1, write_sbatch, and the removal of the record.  The
\* copy, write_sbatch and os.remove end the run by an exception if they fail.
ContinueIcbc ==
    /\ w_pc = "c_icbc"
    /\ w_ran' = Append(w_ran, "icbc")
    /\ w_pc' = "shell"
    /\ \E rc \in ReturnCodes,
          outcome \in {"icbc_failed", "copy_failed", "sbatch_failed", "remove_failed", "ok"} :
         /\ w_rcs' = Append(w_rcs, rc)
         /\ (outcome = "icbc_failed") <=> (rc # 0)
         /\ outcome = "copy_failed" => w_locals.count > 1
         /\ w_exit' = IF outcome = "icbc_failed" THEN Exit(rc, "cmd_failed")
                      ELSE IF outcome = "ok" THEN Exit(0, "done")
                      ELSE Exit(1, "exception")
         /\ w_done' = w_done
                \cup (IF outcome # "icbc_failed" THEN {"icbc"} ELSE {})
                \cup (IF outcome \in {"sbatch_failed", "remove_failed", "ok"}
                         /\ w_locals.count > 1 THEN {"copy"} ELSE {})
                \cup (IF outcome \in {"remove_failed", "ok"} THEN {"sbatch"} ELSE {})
                \cup (IF outcome = "ok" THEN {"remove"} ELSE {})
         /\ state_file' = IF Cleared(outcome) THEN RemoveState(state_file) ELSE state_file
    /\ UNCHANGED <<w_locals, g_saved, wOther>>

NextWorkflow ==
    \/ BadUsage
    \/ BeginStart
    \/ BeginTerrain
    \/ BeginCp
    \/ ContinueStart
    \/ ContinueSst
    \/ ContinueIcbc

SpecWorkflow == InitWorkflow /\ [][NextWorkflow]_vars

\* ------------------------------------------------ workflow state: claims
\* A `continue` run has read the record (it is running, or it has ended).
Resumed ==
    /\ w_locals.mode = "continue"
    /\ w_pc \in {"c_sst", "c_icbc"} \/ (w_pc = "shell" /\ w_exit.msg # "no_paused_run")

\* C14: the base_name, count and base_domname a `continue` run reads from the
\* record equal the arguments of the last save_state call.
C14_SaveLoadRoundTrip ==
    Resumed =>
        /\ g_saved # <<>>
        /\ <<w_locals.base_name, w_locals.count, w_locals.base_domname>> = g_saved

\* C14 witness: a `continue` run has read a record saved by a begin phase with
\* the largest count, and is about to run sst.
C14_Witness ==
    /\ w_pc = "c_sst"
    /\ w_locals.count = MaxCount
    /\ w_locals.base_name = "test.in"
    /\ w_locals.base_domname = "eu44"
    /\ state_file.exists

\* C15: a `continue` request made while no state record is present exits
\* non-zero with the "no paused run" message and runs nothing; and no record
\* is present once a `continue` run has completed successfully, so the next
\* `continue` is refused like one made before any begin phase.
C15_ContinueWithoutRecord ==
    /\ []((w_pc = "shell" /\ w_locals.mode = "continue" /\ w_exit.code = 0)
              => ~state_file.exists)
    /\ [][ (w_pc = "shell" /\ ~state_file.exists /\ w_locals'.mode = "continue")
             => /\ w_pc' = "shell"
                /\ w_exit'.code \notin {0, None}
                /\ w_exit'.msg = "no_paused_run"
                /\ w_ran' = <<>>
                /\ w_done' = {}
                /\ ~state_file'.exists
         ]_vars

\* C15 witness: a `continue` was refused after a record had been saved and
\* removed again.
C15_Witness ==
    /\ w_pc = "shell"
    /\ w_exit.msg = "no_paused_run"
    /\ g_saved # <<>>
    /\ ~state_file.exists

\* C16: the record is removed only by a `continue` run that ends with exit
\* status 0 after sst, icbc, the copy to the other members (count > 1) and the
\* job scripts are done; while a `continue` run is in progress the record is
\* present, and a run that ends non-zero leaves it as it was.
C16_RecordKeptUntilSuccess ==
    /\ [](w_pc \in {"c_sst", "c_icbc"} => state_file.exists)
    /\ [][ /\ (state_file.exists /\ ~state_file'.exists)
                => /\ w_locals.mode = "continue"
                   /\ w_exit' = Exit(0, "done")
                   /\ w_ran' = <<"sst", "icbc">>
                   /\ {"sst", "icbc", "sbatch", "remove"} \subseteq w_done'
                   /\ w_locals.count > 1 => "copy" \in w_done'
           /\ (w_pc \in {"c_sst", "c_icbc"} /\ w_pc' = "shell" /\ w_exit'.code # 0)
                => state_file' = state_file
         ]_vars

\* C16 witness: icbc failed in a `continue` run and the record is still there.
C16_Witness ==
    /\ w_pc = "shell"
    /\ w_locals.mode = "continue"
    /\ w_exit.msg = "cmd_failed"
    /\ w_ran = <<"sst", "icbc">>
    /\ state_file.exists
    /\ JsonLoad(state_file.text)["count"] = w_locals.count

\* ------------------------------------------------------ batch mode: model
\* Number of --apply arguments of a run at most.
MaxSpecs == 2

\* An --apply argument as the loop reads it: the number of comma-separated
\* fields, whether int()/float() accept them all, and the values if so.
ApplySpec(nfields, numeric, region, new_val, percent) ==
    [nfields |-> nfields, numeric |-> numeric,
     x_min |-> region[1], y_min |-> region[2], x_max |-> region[3], y_max |-> region[4],
     new_val |-> new_val, percent |-> percent]

WholeGrid == <<0, 0, SessShape[2] - 1, SessShape[1] - 1>>
BesideGrid == <<SessShape[2], 0, SessShape[2] + 1, SessShape[1] - 1>>

\* The arguments drawn: two valid ones; one of five fields; one with a field
\* that is no number; percents above 100 (on the grid and beside it) and below
\* 0; a category that is no Legend key.
ApplySpecs ==
    {ApplySpec(6, TRUE, WholeGrid, 2, 100),
     ApplySpec(6, TRUE, WholeGrid, 3, 50),
     ApplySpec(5, TRUE, WholeGrid, 2, 100),
     ApplySpec(6, FALSE, WholeGrid, 2, 100),
     ApplySpec(6, TRUE, WholeGrid, 2, 150),
     ApplySpec(6, TRUE, BesideGrid, 2, 150),
     ApplySpec(6, TRUE, WholeGrid, 2, -10),
     ApplySpec(6, TRUE, WholeGrid, 9, 100)}

\* A batch run: the dataset is open, the grid read, and cli_applies is not
\* empty (`if cli_applies:`).
InitBatch ==
    /\ PerturbOff /\ ReplayOff /\ RegistryOff /\ WorkflowOff
    /\ b_pc = "loop"
    /\ b_impl \in {"ulanduseEdit", "asf"}
    /\ cli_applies \in SeqsUpTo(ApplySpecs, MaxSpecs) \ {<<>>}
    /\ b_i = 1
    /\ b_exit = None
    /\ filename = 0
    /\ data_open = TRUE
    /\ disk = [f \in FileIds |-> IF f = filename THEN InitialGrid ELSE <<>>]
    /\ landuse_data = InitialGrid
    /\ applied_changes = <<>>
    /\ ensemble_members = <<>> /\ all_valid = FALSE
    /\ bulk_applied_changes = <<>> /\ current_region = <<>>
    /\ pc = "off" /\ sa_i = 0 /\ m_data = None /\ leaked = {} /\ errors = 0
    /\ report = <<"none", "none">> /\ tally = NoTally
    /\ g_log = <<>> /\ g_failed = {} /\ g_written = {} /\ g_prior = {}

\* What a batch run leaves alone.
bOther == <<pvars, rvars, cvars, wvars, ensemble_members, all_valid, filename,
            bulk_applied_changes, current_region, pc, sa_i, m_data, leaked, errors,
            report, tally, g_log, g_failed, g_written, g_prior, b_impl, cli_applies>>

\* sys.exit(code), or the end of the process by an uncaught exception
\* (status 1): the dataset handle goes with the process.
BatchExit(code) ==
    /\ b_pc' = "exited"
    /\ b_exit' = code
    /\ data_open' = FALSE
    /\ UNCHANGED b_i

\* ulanduseEdit.py lines 200-217: the spec is refused (message, sys.exit(1)).
BatchRejects(spec) ==
    \/ spec.nfields # 6
    \/ ~spec.numeric
    \/ ~(0 <= spec.percent /\ spec.percent <= 100)
    \/ spec.new_val \notin LegendKeys

\* ulanduseEdit.py lines 199-224: one pass of the --apply loop.
BatchApply ==
    /\ b_pc = "loop" /\ b_impl = "ulanduseEdit"
    /\ b_i <= Len(cli_applies)
    /\ LET spec == cli_applies[b_i] IN
       IF BatchRejects(spec) THEN
            /\ BatchExit(1)
            /\ UNCHANGED <<landuse_data, applied_changes>>
       ELSE \E o \in ApplyRegionToArray(landuse_data, spec.x_min, spec.y_min, spec.x_max,
                                        spec.y_max, spec.new_val, spec.percent) :
            IF o.raised THEN
                 /\ BatchExit(1)
                 /\ UNCHANGED <<landuse_data, applied_changes>>
            ELSE /\ landuse_data' = o.arr
                 /\ applied_changes' =
                        LedgerAppend(applied_changes,
                                     <<spec.x_min, spec.y_min, spec.x_max, spec.y_max,
                                       spec.new_val, spec.percent>>)
                 /\ b_i' = b_i + 1
                 /\ UNCHANGED <<b_pc, b_exit, data_open>>
    /\ UNCHANGED <<disk, bOther>>

\* asf.py lines 95-100: the spec ends the run: sys.exit(1) for a wrong number
\* of fields, an uncaught ValueError of int() or float() otherwise.
AsfBatchRejects(spec) ==
    \/ spec.nfields # 6
    \/ ~spec.numeric

\* asf.py lines 93-116: one pass of the --apply loop; np.random.choice ends
\* the run by a ValueError if the count is negative or exceeds the points.
AsfBatchApply ==
    /\ b_pc = "loop" /\ b_impl = "asf"
    /\ b_i <= Len(cli_applies)
    /\ LET spec == cli_applies[b_i] IN
       IF AsfBatchRejects(spec) THEN
            /\ BatchExit(1)
            /\ UNCHANGED <<landuse_data, applied_changes>>
       ELSE \E o \in AsfApply(landuse_data, spec.x_min, spec.y_min, spec.x_max,
                              spec.y_max, spec.new_val, spec.percent) :
            IF o.raised THEN
                 /\ BatchExit(1)
                 /\ UNCHANGED <<landuse_data, applied_changes>>
            ELSE /\ landuse_data' = o.arr
                 /\ applied_changes' =
                        LedgerAppend(applied_changes,
                                     <<spec.x_min, spec.y_min, spec.x_max, spec.y_max,
                                       spec.new_val, spec.percent>>)
                 /\ b_i' = b_i + 1
                 /\ UNCHANGED <<b_pc, b_exit, data_open>>
    /\ UNCHANGED <<disk, bOther>>

\* The save reached as soon as one spec has been applied.
SomeApplied(i, specs) == i > 1

\* The `for spec in cli_applies` loop has run to its end: the statements after
\* it are reached only then.
AllApplied(i, specs) == i > Len(specs)

\* After the loop (ulanduseEdit.py lines 226-229, asf.py lines 118-121):
\* landuse[:] = landuse_data; data.sync(); sys.exit(0).  A write or sync that
\* raises ends the run with status 1, the dataset holding the old grid or the
\* new one.
BatchSave ==
    /\ b_pc = "loop"
    /\ AllApplied(b_i, cli_applies)
    /\ \E ok \in BOOLEAN :
         IF ok THEN /\ disk' = [disk EXCEPT ![filename] = landuse_data]
                    /\ BatchExit(0)
         ELSE /\ disk' \in {disk, [disk EXCEPT ![filename] = landuse_data]}
              /\ BatchExit(1)
    /\ UNCHANGED <<landuse_data, applied_changes, bOther>>

NextBatch == BatchApply \/ AsfBatchApply \/ BatchSave

SpecBatch == InitBatch /\ [][NextBatch]_vars

\* ----------------------------------------------------- batch mode: claims
\* Every cell of a grid holds a Legend key.
InLegend(arr) ==
    \A r \in 1 .. Len(arr) : \A c \in 1 .. Len(arr[r]) : arr[r][c] \in LegendKeys

\* C17: every cell of the grid in memory and of the dataset holds a Legend
\* key, as it did when the grid was loaded, after any sequence of --apply
\* specs (and of Apply and Apply All actions).
C17_GridInLegend ==
    /\ landuse_data # <<>> => InLegend(landuse_data)
    /\ \A f \in DOMAIN disk : InLegend(disk[f])

\* A spec the claim calls invalid.
InvalidSpec(spec) ==
    \/ spec.nfields # 6
    \/ ~spec.numeric
    \/ ~(0 <= spec.percent /\ spec.percent <= 100)
    \/ spec.new_val \notin LegendKeys

\* The index of the first invalid spec of the run (0: none).
FirstInvalid ==
    IF \E i \in 1 .. Len(cli_applies) : InvalidSpec(cli_applies[i])
    THEN CHOOSE i \in 1 .. Len(cli_applies) :
             /\ InvalidSpec(cli_applies[i])
             /\ \A j \in 1 .. i - 1 : ~InvalidSpec(cli_applies[j])
    ELSE 0

\* C18: a batch run with an invalid --apply spec never gets past the first
\* such spec: neither it nor a later spec is applied, and the run ends with a
\* non-zero exit status.
C18_BatchFailFast ==
    (b_pc # "off" /\ FirstInvalid # 0) =>
        /\ b_i <= FirstInvalid
        /\ Len(applied_changes) < FirstInvalid
        /\ b_pc = "exited" => b_exit # 0

\* --------------------------------------- claims on the session, continued
\* What Apply and Apply All report when they refuse their input.
InputRejections == {"no_region", "no_points", "not_numeric", "bad_landuse", "bad_percent"}

\* An Apply that is accepted and recorded.
AcceptedApply ==
    /\ ApplyChanges \/ AsfApplyChanges
    /\ report'[2] = "changed"
    /\ Len(applied_changes') = Len(applied_changes) + 1

\* C19: in an interactive session every Apply or Apply All step either is
\* accepted, and then a region is selected and the recorded category is a
\* Legend key and the recorded percent lies in [0, 100], or is reported and
\* changes neither the grid, a ledger nor a dataset and leaves the session
\* running; without a region the step is refused; and after a refusal a valid
\* Apply on a selected region can still be taken and is recorded (both
\* implementations).
C19_InvalidInputRejected ==
    /\ []((/\ pc \in {"idle", "asf_idle"}
           /\ report[1] \in {"Apply", "ApplyAll"}
           /\ report[2] \in InputRejections
           /\ Len(applied_changes) < MaxLedger)
              => /\ ENABLED (OnSelect \/ AsfOnSelect)
                 /\ current_region # <<>> => ENABLED AcceptedApply)
    /\ [][ report'[1] \in {"Apply", "ApplyAll"} =>
             IF report'[2] \in {"changed", "staged"}
             THEN /\ current_region # <<>>
                  /\ Len(applied_changes') = Len(applied_changes) + 1
                  /\ LET c == applied_changes'[Len(applied_changes')]
                     IN  /\ <<c[1], c[2], c[3], c[4]>> = current_region
                         /\ c[5] \in LegendKeys
                         /\ 0 <= c[6] /\ c[6] <= 100
             ELSE /\ report'[2] \in InputRejections
                                      \cup {"disabled_no_members", "disabled_missing"}
                  /\ UNCHANGED <<landuse_data, applied_changes, bulk_applied_changes,
                                 disk, current_region, pc, data_open>>
         ]_vars

\* C19 witness: in a session that has recorded an edit, an Apply with a
\* category outside the Legend was refused with a region selected.
C19_Witness ==
    /\ pc = "idle"
    /\ report = <<"Apply", "bad_landuse">>
    /\ current_region # <<>>
    /\ applied_changes # <<>>
    /\ landuse_data # InitialGrid

\* The step on which Save All prints its closing line.
SaveAllCloses == pc = "sa_loop" /\ pc' = "idle"

\* The number of failed members a closing line states: "all N member(s) saved
\* successfully" states that none failed.
ReportedFailed(t) == IF t.failed = None /\ t.succeeded # None THEN 0 ELSE t.failed

\* C20 as stated: the closing line of Save All gives the number of members
\* whose processing raised and, as the number of succeeded members, the
\* number of the remaining ones.
C20_TallyExact ==
    [][ SaveAllCloses =>
          /\ ReportedFailed(tally') = Cardinality(g_failed)
          /\ tally'.succeeded = Len(ensemble_members) - Cardinality(g_failed)
      ]_vars

\* C20: the closing line of Save All gives the number of failed members
\* exactly: the number of members whose open/apply/write/close sequence
\* raised.  It gives a number of succeeded members, all of them, only when
\* none failed; otherwise the succeeded members are the ones reported saved
\* one by one, which are exactly the members that did not fail.
C20_FailureCountExact ==
    [][ SaveAllCloses =>
          /\ ReportedFailed(tally') = Cardinality(g_failed)
          /\ g_failed = {} => tally'.succeeded = Len(ensemble_members)
          /\ g_failed # {} => tally'.succeeded = None
          /\ g_written \cap g_failed = {}
          /\ g_written \cup ({filename} \cap MemberFiles) = MemberFiles \ g_failed
      ]_vars

\* C20 witness: Save All over three members has closed with one failure,
\* the two other members' datasets rewritten and the failed one's as it was.
C20_Witness ==
    /\ pc = "idle"
    /\ report = <<"SaveAll", "complete_with_errors">>
    /\ tally = [succeeded |-> None, failed |-> 1]
    /\ Len(ensemble_members) = 3
    /\ filename \notin MemberFiles
    /\ Cardinality({f \in MemberFiles : disk[f] # InitialGrid}) = 2
    /\ Cardinality({f \in MemberFiles : disk[f] = InitialGrid}) = 1

\* C21 as stated: a write or sync that fails during Save ends the session.
C21_SaveFailureFatal ==
    [][ (report'[1] = "Save" /\ report'[2] \in {"error", "exception"})
            => pc' = "closed" ]_vars

\* C21: a write or sync that fails during Save of ulanduseEdit.py is caught
\* and reported and the session goes on, its grid, ledgers and handle as they
\* were and only the session's dataset possibly rewritten; in asf.py the
\* error leaves the handler uncaught, the in-memory grid and ledger as they
\* were.  A member's failure during bulk propagation is recovered: the
\* propagation goes on.
C21_SaveFailureReported ==
    [][ /\ (report'[1] = "Save" /\ report'[2] = "error")
            => /\ pc = "idle" /\ pc' = "idle"
               /\ data_open'
               /\ \A f \in FileIds \ {filename} : disk'[f] = disk[f]
               /\ disk'[filename] \in {disk[filename], landuse_data}
               /\ UNCHANGED <<landuse_data, applied_changes, bulk_applied_changes,
                              current_region, ensemble_members, filename>>
        /\ (report'[1] = "Save" /\ report'[2] = "exception")
            => /\ pc = "asf_idle" /\ pc' \in {"asf_idle", "closed"}
               /\ \A f \in FileIds \ {filename} : disk'[f] = disk[f]
               /\ UNCHANGED <<landuse_data, applied_changes, current_region>>
        /\ report' = <<"SaveAll", "member_error">>
            => /\ pc' = "sa_loop"
               /\ errors' = errors + 1
      ]_vars

\* C21 witness: a Save of ulanduseEdit.py failed with edits in memory that
\* the dataset does not hold, and the session is running.
C21_Witness ==
    /\ pc = "idle"
    /\ report = <<"Save", "error">>
    /\ data_open
    /\ applied_changes # <<>>
    /\ disk[filename] # landuse_data

\* ------------------------------------------ two calls with one argument list
\* Regions: a row of the grid, a 2 x 2 block, two cells, one cell, a corner
\* reaching past the grid, and a region beside the grid.
PairRegions ==
    {<<0, 0, Cols - 1, 0>>, <<0, 0, 1, 1>>, <<0, 0, 1, 0>>, <<1, 1, 1, 1>>,
     <<Cols - 2, -1, Cols, 0>>, <<Cols, 0, Cols, 1>>}
PairPercents == {0, 1, 34, 50, 99, 100}
PairVals == {2, 3}

InitPair ==
    /\ SessionOff
    /\ ReplayOff /\ RegistryOff /\ BatchOff /\ WorkflowOff
    /\ p_pc = "ready"
    /\ p_arr \in PerturbArrays
    /\ \E region \in PairRegions, new_val \in PairVals, percent \in PairPercents :
          p_call = [x_min |-> region[1], y_min |-> region[2],
                    x_max |-> region[3], y_max |-> region[4],
                    new_val |-> new_val, percent |-> percent]
    /\ p_res = "none"
    /\ p_res2 = "none"

\* A second call of _apply_region_to_array with the same arguments on a copy
\* of the array the first call was given (as the member loop of
\* save_all_changes does for the next member's grid).
PerturbSecond ==
    /\ p_pc = "done"
    /\ p_res.impl = "ulanduseEdit"
    /\ \E o \in ApplyRegionToArray(p_arr, p_call.x_min, p_call.y_min, p_call.x_max,
                                   p_call.y_max, p_call.new_val, p_call.percent) :
           p_res2' = [impl |-> "ulanduseEdit", out |-> o]
    /\ p_pc' = "twice"
    /\ UNCHANGED <<p_arr, p_call, p_res, svars, ovars>>

\* A second pass of the asf.py batch loop body with the same arguments on a
\* copy of the array (the replay command run on another file).
AsfSecond ==
    /\ p_pc = "done"
    /\ p_res.impl = "asf"
    /\ \E o \in AsfApply(p_arr, p_call.x_min, p_call.y_min, p_call.x_max,
                         p_call.y_max, p_call.new_val, p_call.percent) :
           p_res2' = [impl |-> "asf", out |-> o]
    /\ p_pc' = "twice"
    /\ UNCHANGED <<p_arr, p_call, p_res, svars, ovars>>

NextPair == PerturbCall \/ AsfCall \/ PerturbSecond \/ AsfSecond

SpecPair == InitPair /\ [][NextPair]_vars

\* ------------------------------------------------- claims on the two calls
\* The count both calls draw: floor(cells of the clamped region * percent / 100).
PairCount == (Cardinality(RegionCells(p_arr, p_call)) * p_call.percent) \div 100

\* The second call takes place and assigns the cells S.
SecondDraws(S) == (PerturbSecond \/ AsfSecond) /\ p_res2'.out.cells = S

\* The second call takes place and assigns other cells than the first.
SecondDiffers == (PerturbSecond \/ AsfSecond) /\ p_res2'.out.cells # p_res.out.cells

C23_WritesInsideRegion ==
    PerturbDone =>
        /\ CellsOf(p_res.out.arr) = CellsOf(p_arr)
        /\ \A p \in CellsOf(p_arr) \ RegionCells(p_arr, p_call) :
               p_res.out.arr[p[1] + 1][p[2] + 1] = p_arr[p[1] + 1][p[2] + 1]
        /\ \A p \in ChangedCells(p_arr, p_res.out.arr) :
               p_res.out.arr[p[1] + 1][p[2] + 1] = p_call.new_val
        /\ p_res.out.cells \subseteq RegionCells(p_arr, p_call)
        /\ ChangedCells(p_arr, p_res.out.arr) \subseteq p_res.out.cells

\* C23 witness: half of a region that starts before the grid on both axes and
\* ends past its last row has been rewritten, the rest of the grid left alone.
C23_Witness ==
    /\ UlanduseDone
    /\ p_call.x_min = -1 /\ p_call.y_min = -1
    /\ p_call.x_max = 1 /\ p_call.y_max = Rows
    /\ p_call.percent = 50 /\ p_call.new_val = 3
    /\ Cardinality(ChangedCells(p_arr, p_res.out.arr)) = Rows
    /\ \E p \in RegionCells(p_arr, p_call) : p \notin p_res.out.cells

\* ------------------------------------- claims on the workflow, continued
\* A begin phase has ended with a non-zero exit status.
BeginFailed == w_pc = "shell" /\ w_locals.mode = "begin" /\ w_exit.code # 0

\* C24 as stated: after a begin phase that ended non-zero no record is
\* present, so that a following `continue` is refused.
C24_FailedBeginLeavesNoRecord == BeginFailed => ~state_file.exists

\* C24: the begin phase writes the record only as its last step, after
\* terrain and cp have both returned 0, and then exits 0; a begin phase in
\* which terrain or cp returns non-zero exits with that code and leaves the
\* record as it was before the phase: absent if none was there, so that a
\* following `continue` is refused, and an earlier begin phase's record
\* otherwise.  A record that is present holds the arguments of the last
\* save_state call.
C24_RecordOnlyAfterTerrain ==
    /\ [](state_file.exists =>
            /\ g_saved # <<>>
            /\ state_file = SaveState(g_saved[1], g_saved[2], g_saved[3]))
    /\ []((BeginFailed /\ g_saved = <<>>)
              => /\ ~state_file.exists
                 /\ ENABLED (ContinueStart /\ w_exit'.msg = "no_paused_run")
                 /\ ~ENABLED (ContinueStart /\ w_pc' = "c_sst"))
    /\ [][ /\ (w_locals'.mode = "begin" /\ state_file' # state_file)
                => /\ w_pc = "b_cp" /\ w_pc' = "shell"
                   /\ w_ran' = <<"terrain", "cp">>
                   /\ w_rcs' = <<0, 0>>
                   /\ {"members_created", "terrain", "cp", "save"} \subseteq w_done'
                   /\ w_exit' = Exit(0, "terrain_complete")
                   /\ state_file' = SaveState(w_locals.base_name, w_locals.count,
                                              w_locals.base_domname)
           /\ (w_pc \in {"b_terrain", "b_cp"} /\ w_rcs'[Len(w_rcs')] # 0)
                => /\ w_pc' = "shell"
                   /\ w_exit' = Exit(w_rcs'[Len(w_rcs')], "cmd_failed")
                   /\ "save" \notin w_done'
                   /\ UNCHANGED <<state_file, g_saved>>
         ]_vars

\* C24 witness: in a directory without a record, terrain has failed with
\* return code 2 and the begin phase has exited with 2, no record written.
C24_Witness ==
    /\ BeginFailed
    /\ w_ran = <<"terrain">>
    /\ w_rcs = <<2>>
    /\ w_exit = Exit(2, "cmd_failed")
    /\ g_saved = <<>>
    /\ ~state_file.exists

\* ------------------------------------------ claims on repeated Save All
\* C25: no member's dataset is written by a Save All after an earlier Save
\* All of the session, ended without an error, has written it: the first
\* entry of the bulk ledger, part of every propagation, is applied to each
\* non-current member's dataset at most once.
C25_AppliedAtMostOnce == g_prior \cap g_written = {}

\* C26: Save All writes the current grid to the session's dataset before the
\* member loop starts, so that dataset holds the grid while members are
\* processed; and when that write or sync fails the handler returns at once:
\* the session is idle again, no member's dataset has been opened or changed,
\* nothing was counted, and only the session's dataset may have been
\* rewritten.
C26_CurrentFailureStopsSaveAll ==
    /\ [](pc \in {"sa_loop", "sa_opened"} => disk[filename] = landuse_data)
    /\ [][ /\ report' = <<"SaveAll", "current_error">>
                => /\ pc = "idle" /\ pc' = "idle"
                   /\ m_data' = None
                   /\ OpenHandles' = OpenHandles
                   /\ \A f \in FileIds \ {filename} : disk'[f] = disk[f]
                   /\ disk'[filename] \in {disk[filename], landuse_data}
                   /\ UNCHANGED <<sa_i, errors, leaked, g_log, g_failed, g_written,
                                  landuse_data, applied_changes, bulk_applied_changes>>
           /\ (pc = "idle" /\ pc' = "sa_loop")
                => /\ report' = <<"SaveAll", "current_saved">>
                   /\ disk' = [disk EXCEPT ![filename] = landuse_data]
                   /\ m_data' = None
         ]_vars

\* C26 witness: with bulk edits staged for a full ensemble, the write of the
\* current grid failed in Save All; the session's dataset lacks the edits and
\* every member's dataset is as it was at start-up.
C26_Witness ==
    /\ pc = "idle"
    /\ report = <<"SaveAll", "current_error">>
    /\ all_valid
    /\ Len(ensemble_members) = NMembers
    /\ bulk_applied_changes # <<>>
    /\ landuse_data # InitialGrid
    /\ \A f \in MemberFiles : disk[f] = InitialGrid

\* ------------------------------------------ claims on batch mode, continued
\* The dataset as it was when the batch run started.
DiskAtStart == [f \in FileIds |-> IF f = filename THEN InitialGrid ELSE <<>>]

\* C27: while the --apply loop of a batch run is going on the dataset is as it
\* was at the start; it is written only after the last spec has been applied,
\* with the grid in memory; so a run that ends before all specs were applied
\* ends non-zero with the dataset unchanged, whatever the earlier specs changed
\* in memory (both implementations).
C27_BatchAllOrNothing ==
    /\ [](b_pc = "loop" => disk = DiskAtStart)
    /\ []((b_pc = "exited" /\ Len(applied_changes) < Len(cli_applies))
              => /\ disk = DiskAtStart
                 /\ b_exit = 1)
    /\ [][ (b_pc # "off" /\ disk' # disk)
             => /\ b_i > Len(cli_applies)
                /\ Len(applied_changes) = Len(cli_applies)
                /\ disk' = [disk EXCEPT ![filename] = landuse_data]
                /\ b_pc' = "exited"
         ]_vars

\* C27 witness: a run of two specs was ended by its second spec after the
\* first had changed the grid in memory; the dataset holds the initial grid.
C27_Witness ==
    /\ b_pc = "exited"
    /\ b_exit = 1
    /\ Len(cli_applies) = 2
    /\ Len(applied_changes) = 1
    /\ b_i = 2
    /\ landuse_data # InitialGrid
    /\ disk[filename] = InitialGrid

====
